---- MODULE Spec2Model ----
(***************************************************************************)
(* Model of the ai-autopilot adapter (src/main.js, first AiAutopilot      *)
(* class): the action lifecycle, the approval protocol, the run lock, the  *)
(* daily-report scheduler and the action merge.                            *)
(*                                                                         *)
(* The module holds several specifications over one set of variables.     *)
(* Each specification moves only its own group of variables; the other    *)
(* groups stay parked at their initial value.                              *)
(*   SpecRecord  one action record under transition / decision requests    *)
(*   Spec        the approval protocol over the persisted action list      *)
(*   SpecRun     the triggers of the analysis pipeline and the run lock    *)
(*   SpecDaily   the daily-report timer chain                              *)
(*   SpecDedupe  the merge of the generated action lists                   *)
(***************************************************************************)
EXTENDS Integers, Sequences, FiniteSets, TLC

VARIABLES
  now,        \* the clock read by new Date(), in ticks
  rec,        \* SpecRecord: the action record under test
  recLast,    \* SpecRecord: the last request applied to rec and its result
  stored,                 \* Spec: the state report.actions (persisted action list)
  pending,                \* Spec: this.pendingActions (the last outbound batch)
  actionHistory,          \* Spec: the state report.actionHistory
  feedbackHistory,        \* Spec: this.feedbackHistory / memory.feedback
  learningHistory,        \* Spec: this.learningHistory / memory.learning
  learningHistoryEntries, \* Spec: this.learningHistoryEntries / memory.history
  awaitingTelegramInput,  \* Spec: this.awaitingTelegramInput
  pendingModifyActionId,  \* Spec: this.pendingModifyActionId
  outbox,                 \* Spec: messages handed to the messaging channel
  report,                 \* Spec: the states report.last and info.lastError,
                          \*       and the run that last wrote each state
  nextId,                 \* Spec: number of the next action a run creates
  cfg,                    \* Spec: this.config (dryRun, telegram)
  lastCmd,                \* Spec: the last command handled and what it refused
  running,     \* SpecRun: this.running, the run lock
  controlRun,  \* SpecRun: the state control.run (value and ack flag)
  runEvents,   \* SpecRun: state changes of control.run not yet delivered
  trig,        \* SpecRun: the triggers seen so far and where their handler is
  warnings,    \* SpecRun: number of 'trigger ignored' warnings logged
  adapter,     \* SpecRun: onReady has run; the interval timer is armed
  mode,        \* SpecRun: this.config.mode
  utcHour,       \* SpecDaily: the instant read by new Date(), in hours
  dailyCfg,      \* SpecDaily: this.config.dailyReport and the channel setup
  dailyLastSent, \* SpecDaily: the state report.dailyLastSent
  dailyTimer,    \* SpecDaily: the instant this.dailyReportTimer fires
  dailyExec,     \* SpecDaily: the execution of runDailyReportIfDue in flight
  dailyLog,      \* SpecDaily: per local date, executions and reports sent
  dailyAdapter,  \* SpecDaily: the adapter is up; number of starts so far
  dedupe,        \* SpecDedupe: an input list, its merge, the merge of that
  agg,           \* SpecAggregate: a sample list and its aggregate
  hist,          \* SpecHistory: the state report.actionHistory, its value
                 \*   before the last persist, the ids that persist wrote
  handlers,      \* SpecInterleaved: the approval commands in flight, where
                 \*   each is suspended and the list it holds
  invocations,   \* SpecInterleaved: per action id, calls of its handler
  merge,         \* SpecMerge: the clock of one run, the actions each
                 \*   generator derived and the merged list
  life,          \* SpecLifecycle: one adapter instance from construction to
                 \*   unload: its timers and what is in flight
  reqs,          \* SpecRequest: the clock of one run and its requests to the
                 \*   history adapter and the completion service
  memo,          \* SpecStores: the feedback and learning stores in memory
                 \*   and as persisted, a reload and a command in flight
  detect         \* SpecDeviations: the inputs of the deviation checks of
                 \*   buildContext and the deviations they report

\* JavaScript null / undefined, for string-valued fields.
Null == "null"

\* An unset timestamp (null); the clock starts at 1.
NoTime == 0

\* Largest clock value of SpecRecord.
MaxClock == 6

\* Largest clock value of Spec: every handled command takes one tick.
MaxCommandClock == 5

\* Number of actions the analysis runs of Spec create in total.
MaxActions == 2

\* Number of triggers of the analysis pipeline in one behaviour.
MaxTriggers == 3

\* Number of local dates in the window of the daily report scheduler.
MaxDays == 4

\* Number of adapter starts in the window of the daily report scheduler.
MaxStarts == 2

\* Length of the lists handed to the merge.
MaxLen == 3

\* The rolling windows of the stores (slice(-n)).
ActionHistoryCap == 500
FeedbackCap == 50
LearningCap == 200
LearningHistoryCap == 500

(***************************************************************************)
(* Action records and the lifecycle functions                              *)
(***************************************************************************)

Statuses == {"proposed", "approved", "rejected", "executed", "failed"}

NormalizeActionStatus(status) ==
  IF status \in Statuses THEN status ELSE "proposed"

\* The transitions table of isActionTransitionAllowed.
Transitions ==
  [proposed |-> {"approved", "rejected"},
   approved |-> {"executed", "failed"},
   rejected |-> {},
   executed |-> {},
   failed   |-> {}]

\* Mutant: the table also lets a proposed action be executed directly.
IsActionTransitionAllowedDirectExecute(currentStatus, nextStatus) ==
  \/ currentStatus = nextStatus
  \/ nextStatus \in Transitions[currentStatus]
  \/ (currentStatus = "proposed" /\ nextStatus = "executed")

IsActionTransitionAllowed(currentStatus, nextStatus) ==
  \/ currentStatus = nextStatus
  \/ nextStatus \in Transitions[currentStatus]

\* Mutant: the timestamps are built anew, the decision instant is dropped.
BuildActionTimestampsAnew(existing, t) ==
  [createdAt  |-> IF existing.createdAt # NoTime THEN existing.createdAt ELSE t,
   decidedAt  |-> NoTime,
   executedAt |-> existing.executedAt]

\* existing.createdAt || now, existing.decidedAt || null, existing.executedAt || null
BuildActionTimestamps(existing, t) ==
  [createdAt  |-> IF existing.createdAt # NoTime THEN existing.createdAt ELSE t,
   decidedAt  |-> existing.decidedAt,
   executedAt |-> existing.executedAt]

NoTimestamps == [createdAt |-> NoTime, decidedAt |-> NoTime, executedAt |-> NoTime]

\* An action that was never dispatched has no executionResult.
NoResult == [status |-> "none", reason |-> Null]

\* a || b on timestamps
OrElse(a, b) == IF a # NoTime THEN a ELSE b

\* The record a generator creates (buildLiveRuleActions / buildDeviationActions).
\* requiresApproval as the generators set it: false for the live rule
\* protect_battery (energy, battery_low), true for the deviation mappings.
RequiresApprovalOf(category, learningKey) ==
  ~(category = "energy" /\ learningKey = "battery_low")

NewAction(id, category, learningKey, t) ==
  [id              |-> id,
   category        |-> category,
   learningKey     |-> learningKey,
   requiresApproval |-> RequiresApprovalOf(category, learningKey),
   status          |-> "proposed",
   decision        |-> Null,
   timestamps      |-> BuildActionTimestamps(NoTimestamps, t),
   executionResult |-> NoResult]

NormalizeActionForPersistence(action, t) ==
  [action EXCEPT !.status      = NormalizeActionStatus(action.status),
                 !.timestamps  = BuildActionTimestamps(action.timestamps, t),
                 !.learningKey = IF action.learningKey = "" THEN "unknown"
                                 ELSE action.learningKey]

\* Mutant: a decision that reopens the action
ApplyActionDecisionReopening(action, decision, t) ==
  LET ts == BuildActionTimestamps(action.timestamps, t)
  IN  [action EXCEPT !.decision   = decision,
                     !.status     = "proposed",
                     !.timestamps = [ts EXCEPT !.decidedAt = OrElse(ts.decidedAt, t)]]

\* applyActionDecision: the record after the call (it always returns true
\* for an existing record).
ApplyActionDecision(action, decision, t) ==
  LET ts == BuildActionTimestamps(action.timestamps, t)
  IN  [action EXCEPT !.decision   = decision,
                     !.timestamps = [ts EXCEPT !.decidedAt = OrElse(ts.decidedAt, t)]]

\* applyActionStatusTransition: [ok |-> the boolean it returns,
\*                               action |-> the record after the call].
ApplyActionStatusTransition(action, nextStatus, t) ==
  LET currentStatus == NormalizeActionStatus(action.status)
      targetStatus  == NormalizeActionStatus(nextStatus)
      ts            == BuildActionTimestamps(action.timestamps, t)
      decided       == targetStatus \in {"approved", "rejected"}
      ran           == targetStatus \in {"executed", "failed"}
  IN  IF ~IsActionTransitionAllowed(currentStatus, targetStatus)
      THEN [ok |-> FALSE, action |-> action]
      ELSE [ok |-> TRUE,
            action |->
              [action EXCEPT
                 !.status     = targetStatus,
                 !.decision   = IF decided THEN targetStatus ELSE action.decision,
                 !.timestamps =
                   [ts EXCEPT
                      !.decidedAt  = IF decided THEN OrElse(ts.decidedAt, t)
                                     ELSE ts.decidedAt,
                      !.executedAt = IF ran THEN OrElse(ts.executedAt, t)
                                     ELSE ts.executedAt]]]

\* What a dispatch can meet: dryRun configured, no handler for the category,
\* a handler that returns, a handler that throws.
Dispatches == {"dryRun", "noHandler", "success", "throw"}

DispatchResult(dispatch) ==
  CASE dispatch = "dryRun"    -> [status |-> "skipped", reason |-> "dryRun"]
    [] dispatch = "noHandler" -> [status |-> "skipped", reason |-> "noHandler"]
    [] dispatch = "success"   -> [status |-> "success", reason |-> Null]
    [] dispatch = "throw"     -> [status |-> "error", reason |-> "message"]

\* A dispatch that treats every result other than a handler's return as a
\* failure.
ExecuteActionSkipFails(action, dispatch, t) ==
  LET withResult == [action EXCEPT !.executionResult = DispatchResult(dispatch)]
  IN  ApplyActionStatusTransition(
        withResult, IF dispatch = "success" THEN "executed" ELSE "failed", t).action

\* executeAction: the record after the dispatch.
ExecuteAction(action, dispatch, t) ==
  LET withResult == [action EXCEPT !.executionResult = DispatchResult(dispatch)]
  IN  ApplyActionStatusTransition(
        withResult, IF dispatch = "throw" THEN "failed" ELSE "executed", t).action

(***************************************************************************)
(* SpecRecord: one record, any sequence of requests                        *)
(***************************************************************************)

NoRequest == [op |-> "none", target |-> Null, from |-> Null, ok |-> TRUE]

InitRecord ==
  /\ now = 1
  /\ rec = NewAction("a1", "energy", "battery_low", 1)
  /\ recLast = NoRequest

ParkRecord ==
  /\ rec = NewAction("a1", "energy", "battery_low", 1)
  /\ recLast = NoRequest

\* applyActionStatusTransition(rec, target)
RecTransition ==
  \E target \in Statuses :
    LET r == ApplyActionStatusTransition(rec, target, now + 1)
    IN  /\ now < MaxClock
        /\ now' = now + 1
        /\ rec' = r.action
        /\ recLast' = [op |-> "transition", target |-> target,
                       from |-> rec.status, ok |-> r.ok]

\* applyActionDecision(rec, 'modified')
RecDecision ==
  /\ now < MaxClock
  /\ now' = now + 1
  /\ rec' = ApplyActionDecision(rec, "modified", now + 1)
  /\ recLast' = [op |-> "decision", target |-> "modified",
                 from |-> rec.status, ok |-> TRUE]

\* normalizeActionForPersistence(rec): persistActions and loadActionsFromState
RecNormalize ==
  /\ now < MaxClock
  /\ now' = now + 1
  /\ rec' = NormalizeActionForPersistence(rec, now + 1)
  /\ recLast' = [op |-> "normalize", target |-> Null,
                 from |-> rec.status, ok |-> TRUE]

\* executeAction(rec), called on approved records only
RecExecute ==
  \E dispatch \in Dispatches :
    /\ rec.status = "approved"
    /\ now < MaxClock
    /\ now' = now + 1
    /\ rec' = ExecuteAction(rec, dispatch, now + 1)
    /\ recLast' = [op |-> "execute", target |-> dispatch,
                   from |-> rec.status, ok |-> TRUE]

(***************************************************************************)
(* Spec: the approval protocol over the persisted action list              *)
(***************************************************************************)

Range(s) == {s[i] : i \in DOMAIN s}

\* array.slice(-n)
LastN(s, n) == IF Len(s) <= n THEN s ELSE SubSeq(s, Len(s) - n + 1, Len(s))

\* A find that takes the first entry of the list, whatever its id.
FindIndexFirstEntry(list, id) == IF Len(list) = 0 THEN 0 ELSE 1

\* array.find(entry => String(entry.id) === String(id)), as an index; 0: none
FindIndex(list, id) ==
  IF \E i \in DOMAIN list : list[i].id = id
  THEN CHOOSE i \in DOMAIN list :
         list[i].id = id /\ \A j \in 1..(i - 1) : list[j].id # id
  ELSE 0

\* The categories getActionHandlers has a handler for.
HandlerCategories == {"energy", "heating", "water", "pv", "safety"}

\* A dispatch in which every handler throws.
DispatchOfThrowing(action, outcome) ==
  IF cfg.dryRun THEN "dryRun"
  ELSE IF action.category \notin HandlerCategories THEN "noHandler"
  ELSE "throw"

\* What executeAction meets for an action: config.dryRun, a missing handler,
\* or the handler's outcome ("success" / "throw").
DispatchOf(action, outcome) ==
  IF cfg.dryRun THEN "dryRun"
  ELSE IF action.category \notin HandlerCategories THEN "noHandler"
  ELSE outcome

HandlerOutcomes == {"success", "throw"}

NoPending == [some |-> FALSE, list |-> <<>>]

\* persistActions: the list written to report.actions
PersistedList(actions, t) ==
  [i \in DOMAIN actions |-> NormalizeActionForPersistence(actions[i], t)]

\* loadActionsFromState: the list parsed from report.actions
LoadActionsFromState(t) ==
  [i \in DOMAIN stored |-> NormalizeActionForPersistence(stored[i], t)]

\* updateActionHistory: a Map keyed by id keeps the position of a key it
\* already holds and appends a new key; the result is cut to the last 500.
RECURSIVE HistoryMerge(_, _, _)
HistoryMerge(history, actions, t) ==
  IF actions = <<>> THEN history
  ELSE LET a     == Head(actions)
           entry == [id |-> a.id, action |-> a, updatedAt |-> t]
           i     == FindIndex(history, a.id)
       IN  HistoryMerge(
             IF i = 0 THEN Append(history, entry)
             ELSE [history EXCEPT ![i] = entry],
             Tail(actions), t)

UpdateActionHistory(history, actions, t) ==
  LastN(HistoryMerge(history, actions, t), ActionHistoryCap)

\* wasActionExecuted
WasActionExecuted(executionResult) ==
  executionResult.status \in {"success", "error"}

\* buildFeedbackEntry
BuildFeedbackEntry(action, approvalResult) ==
  [actionId |-> action.id,
   decision |-> IF approvalResult = "approved" THEN "approved" ELSE "rejected",
   executed |-> WasActionExecuted(action.executionResult)]

\* buildLearningEntry; ofAction is not a field of the entry, it records the
\* action the entry was built from.
BuildLearningEntry(action, userDecision) ==
  [learningKey |-> action.learningKey,
   decision    |-> userDecision,
   ofAction    |-> action.id]

\* buildLearningHistoryEntry
BuildLearningHistoryEntry(action, decision) ==
  [learningKey |-> action.learningKey,
   actionId    |-> action.id,
   decision    |-> decision]

\* storeFeedbackEntries / storeLearningEntries / storeLearningHistoryEntries
StoreEntries(history, entries, cap) ==
  IF entries = <<>> THEN history ELSE LastN(history \o entries, cap)

\* sendTelegramMessage: nothing is sent without telegram.enabled and
\* telegram.instance.
SendTelegramMessage(box, message) ==
  IF cfg.telegram # "on" THEN box ELSE Append(box, message)

Confirmation(action, decision) ==
  [kind |-> "confirmation", actionId |-> action.id, label |-> decision]

\* updatePendingAction: Object.assign(pending entry, action)
UpdatePendingAction(pend, action) ==
  LET j == FindIndex(pend.list, action.id)
  IN  IF ~pend.some \/ j = 0 THEN pend
      ELSE [pend EXCEPT !.list[j] = action]

\* String.prototype.toUpperCase on the texts of the model
\* A reply handler that compares the text as it was typed.
ToUpperCaseAsTyped(text) == text

ToUpperCase(text) ==
  CASE text = "ja"   -> "JA"
    [] text = "nein" -> "NEIN"
    [] OTHER         -> text

Texts == {"JA", "ja", "NEIN", "nein", "hallo"}

Commands == {"approve", "reject", "modify", "executed"}

\* normalizeActionCommand
NormalizeActionCommand(command) ==
  CASE command \in {"approve", "approved"} -> "approve"
    [] command \in {"reject", "rejected"}  -> "reject"
    [] command = "modify"                  -> "modify"
    [] command = "executed"                -> "executed"
    [] OTHER                               -> Null

\* The id of the n-th action the analysis runs create.
ActionId(n) == "a" \o ToString(n)

CategoryOf(n) == IF n % 2 = 1 THEN "energy" ELSE "water"

LearningKeyOf(n) == IF n % 2 = 1 THEN "battery_low" ELSE "water_night_leak"

Cmd(kind, id, refused) ==
  [seq |-> now + 1, kind |-> kind, id |-> id, refused |-> refused]

\* No run has written report.last, report.actions or info.lastError yet.
NoReport ==
  [last |-> "", lastRun |-> 0, actionsRun |-> 0, lastError |-> "", lastErrorRun |-> 0]

InitApproval ==
  /\ stored = <<>>
  /\ pending = NoPending
  /\ actionHistory = <<>>
  /\ feedbackHistory = <<>>
  /\ learningHistory = <<>>
  /\ learningHistoryEntries = <<>>
  /\ awaitingTelegramInput = FALSE
  /\ pendingModifyActionId = Null
  /\ outbox = <<>>
  /\ nextId = 1
  /\ lastCmd = [seq |-> 0, kind |-> "none", id |-> Null, refused |-> {}]
  /\ report = NoReport

ParkApproval ==
  /\ InitApproval
  /\ cfg = [dryRun |-> FALSE, telegram |-> "on"]

approvalStores == <<feedbackHistory, learningHistory, learningHistoryEntries>>
modifyFlags == <<awaitingTelegramInput, pendingModifyActionId>>

\* A handler that returns without any effect.
Ignored(kind, id) ==
  /\ lastCmd' = Cmd(kind, id, {})
  /\ UNCHANGED <<stored, pending, actionHistory, approvalStores, modifyFlags, outbox>>

\* The steps of the try body of runAnalysis, in the order they run.
RunSteps ==
  <<"collectLiveData", "collectHistoryData", "aggregateData", "buildContext",
    "buildLiveRuleActions", "generateGptInsights", "buildDeviationActions",
    "refineActionsWithGpt", "buildGptSuggestedActions", "dedupeActions">>

\* The steps that are not run when the analysis is skipped.
AnalysisOnlySteps ==
  {"generateGptInsights", "refineActionsWithGpt", "buildGptSuggestedActions"}

\* The step that throws, or none.
RunFaults == {"none"} \cup Range(RunSteps)

StepIndex(step) == CHOOSE i \in DOMAIN RunSteps : RunSteps[i] = step

FailureMessage == "Analyse fehlgeschlagen"

\* reportText when the finally block is entered: the skip notice is set
\* after buildContext, the report after generateGptInsights; the catch block
\* sets the failure message only when reportText is still empty.
ReportText(skip, fault) ==
  LET setAfter == IF skip THEN StepIndex("buildContext")
                  ELSE StepIndex("generateGptInsights")
      text     == IF skip THEN "analysis skipped" ELSE "report"
  IN  IF fault = "none" \/ StepIndex(fault) > setAfter THEN text
      ELSE FailureMessage

\* lastErrorMessage when the finally block is entered
LastErrorMessage(fault) == IF fault = "none" THEN "" ELSE FailureMessage

\* A run whose final writes are part of the try body.
FinalWritesInBody(fault) ==
  IF fault = "none" THEN {"report.last", "report.actions", "info.lastError"}
  ELSE {"info.lastError"}

\* The states the run writes at its end: the three writes are in the finally
\* block, and handleError writes info.lastError in the catch block.
FinalWrites(fault) == {"report.last", "report.actions", "info.lastError"}

\* runAnalysis: the try body runs up to the step that throws, finalActions is
\* assigned by the last step only; then report.last and report.actions are
\* written with the run's text and merged list, requestApproval makes a
\* non-empty list the pending batch, persists it and sends the approval
\* message, and info.lastError is written.
PublishBatch ==
  \E k \in 0..2, skip \in BOOLEAN, fault \in RunFaults :
    LET t      == now + 1
        batch  == [i \in 1..k |->
                    NewAction(ActionId(nextId + i - 1), CategoryOf(nextId + i - 1),
                              LearningKeyOf(nextId + i - 1), t)]
        writes == FinalWrites(fault)
    IN  /\ now < MaxCommandClock
        /\ nextId + k - 1 <= MaxActions
        /\ fault # "none" => k = 0
        /\ skip => fault \notin AnalysisOnlySteps
        /\ now' = t
        /\ nextId' = nextId + k
        /\ stored' = IF "report.actions" \in writes THEN PersistedList(batch, t)
                     ELSE stored
        /\ pending' = IF k = 0 THEN pending ELSE [some |-> TRUE, list |-> batch]
        /\ actionHistory' =
             IF k = 0 THEN actionHistory
             ELSE UpdateActionHistory(actionHistory, stored', t)
        /\ outbox' =
             IF k = 0 THEN outbox
             ELSE SendTelegramMessage(
                    outbox, [kind |-> "approval", actionId |-> Null, label |-> Null])
        /\ report' =
             [last         |-> IF "report.last" \in writes
                               THEN ReportText(skip, fault) ELSE report.last,
              lastRun      |-> IF "report.last" \in writes THEN t ELSE report.lastRun,
              actionsRun   |-> IF "report.actions" \in writes THEN t
                               ELSE report.actionsRun,
              lastError    |-> IF "info.lastError" \in writes
                               THEN LastErrorMessage(fault) ELSE report.lastError,
              lastErrorRun |-> IF "info.lastError" \in writes THEN t
                               ELSE report.lastErrorRun]
        /\ lastCmd' = Cmd(IF fault = "none" THEN "publish" ELSE "failedRun", Null, {})
        /\ UNCHANGED <<approvalStores, modifyFlags, cfg>>

\* handleActionCallback, command modify
CallbackModify(actionId, actions, i, t) ==
  LET action   == ApplyActionDecision(actions[i], "modified", t)
      actions2 == [actions EXCEPT ![i] = action]
  IN  /\ stored' = PersistedList(actions2, t)
      /\ actionHistory' = UpdateActionHistory(actionHistory, stored', t)
      /\ awaitingTelegramInput' = TRUE
      /\ pendingModifyActionId' = actionId
      /\ outbox' = SendTelegramMessage(outbox, Confirmation(action, "modified"))
      \* storeActionLearningDecision reads the list just written
      /\ learningHistory' =
           StoreEntries(learningHistory,
                        <<BuildLearningEntry(stored'[i], "modified")>>, LearningCap)
      /\ lastCmd' = Cmd("callback", actionId, {})
      /\ UNCHANGED <<pending, feedbackHistory, learningHistoryEntries>>

\* handleActionCallback, command reject
CallbackReject(actionId, actions, i, t) ==
  LET r        == ApplyActionStatusTransition(actions[i], "rejected", t)
      action   == [r.action EXCEPT
                     !.executionResult = [status |-> "skipped", reason |-> "rejected"]]
      actions2 == [actions EXCEPT ![i] = action]
  IN  IF ~r.ok
      THEN /\ lastCmd' = Cmd("callback", actionId, {actions[i]})
           /\ UNCHANGED <<stored, pending, actionHistory, approvalStores,
                          modifyFlags, outbox>>
      ELSE /\ stored' = PersistedList(actions2, t)
           /\ actionHistory' = UpdateActionHistory(actionHistory, stored', t)
           /\ outbox' = SendTelegramMessage(outbox, Confirmation(action, "rejected"))
           /\ feedbackHistory' =
                StoreEntries(feedbackHistory,
                             <<BuildFeedbackEntry(action, "rejected")>>, FeedbackCap)
           \* persistLearningForDecision(action, 'rejected')
           /\ learningHistoryEntries' =
                StoreEntries(learningHistoryEntries,
                             <<BuildLearningHistoryEntry(action, "rejected")>>,
                             LearningHistoryCap)
           /\ learningHistory' =
                StoreEntries(learningHistory,
                             <<BuildLearningEntry(action, "rejected")>>, LearningCap)
           /\ pending' = UpdatePendingAction(pending, action)
           /\ lastCmd' = Cmd("callback", actionId, {})
           /\ UNCHANGED modifyFlags

\* handleActionCallback, command approve
CallbackApprove(actionId, actions, i, outcome, t) ==
  LET r        == ApplyActionStatusTransition(actions[i], "approved", t)
      action   == ExecuteAction(r.action, DispatchOf(r.action, outcome), t)
      actions2 == [actions EXCEPT ![i] = action]
  IN  IF ~r.ok
      THEN /\ lastCmd' = Cmd("callback", actionId, {actions[i]})
           /\ UNCHANGED <<stored, pending, actionHistory, approvalStores,
                          modifyFlags, outbox>>
      ELSE /\ stored' = PersistedList(actions2, t)
           /\ actionHistory' = UpdateActionHistory(actionHistory, stored', t)
           /\ outbox' = SendTelegramMessage(outbox, Confirmation(action, "approved"))
           /\ feedbackHistory' =
                StoreEntries(feedbackHistory,
                             <<BuildFeedbackEntry(action, "approved")>>, FeedbackCap)
           \* persistLearningForDecision(action, 'executed')
           /\ learningHistoryEntries' =
                StoreEntries(learningHistoryEntries,
                             <<BuildLearningHistoryEntry(action, "executed")>>,
                             LearningHistoryCap)
           /\ learningHistory' =
                StoreEntries(learningHistory,
                             <<BuildLearningEntry(action, "approved")>>, LearningCap)
           /\ pending' = UpdatePendingAction(pending, action)
           /\ lastCmd' = Cmd("callback", actionId, {})
           /\ UNCHANGED modifyFlags

\* handleActionCallback, command executed
CallbackExecuted(actionId, actions, i, t) ==
  LET r        == ApplyActionStatusTransition(actions[i], "executed", t)
      action   == r.action
      actions2 == [actions EXCEPT ![i] = action]
  IN  IF ~r.ok
      THEN /\ lastCmd' = Cmd("callback", actionId, {actions[i]})
           /\ UNCHANGED <<stored, pending, actionHistory, approvalStores,
                          modifyFlags, outbox>>
      ELSE /\ stored' = PersistedList(actions2, t)
           /\ actionHistory' = UpdateActionHistory(actionHistory, stored', t)
           /\ outbox' = SendTelegramMessage(outbox, Confirmation(action, "executed"))
           /\ feedbackHistory' =
                StoreEntries(feedbackHistory,
                             <<BuildFeedbackEntry(action, "approved")>>, FeedbackCap)
           \* persistLearningForDecision(action, 'executed')
           /\ learningHistoryEntries' =
                StoreEntries(learningHistoryEntries,
                             <<BuildLearningHistoryEntry(action, "executed")>>,
                             LearningHistoryCap)
           /\ learningHistory' =
                StoreEntries(learningHistory,
                             <<BuildLearningEntry(action, "approved")>>, LearningCap)
           /\ pending' = UpdatePendingAction(pending, action)
           /\ lastCmd' = Cmd("callback", actionId, {})
           /\ UNCHANGED modifyFlags

\* handleActionCallback(actionId, actionCommand)
HandleActionCallback(actionId, command, outcome) ==
  LET t       == now + 1
      actions == LoadActionsFromState(t)
      i       == FindIndex(actions, actionId)
      c       == NormalizeActionCommand(command)
  IN  IF Len(actions) = 0 \/ i = 0 \/ c = Null
      THEN Ignored("callback", actionId)
      ELSE CASE c = "modify"   -> CallbackModify(actionId, actions, i, t)
             [] c = "reject"   -> CallbackReject(actionId, actions, i, t)
             [] c = "approve"  -> CallbackApprove(actionId, actions, i, outcome, t)
             [] c = "executed" -> CallbackExecuted(actionId, actions, i, t)

\* finalizeApproval('approved'): updateActionStatuses, executeActions, clear
FinalizeApproved(outcomes, kind) ==
  LET t        == now + 1
      list     == pending.list
      req      == [i \in DOMAIN list |->
                     ApplyActionStatusTransition(list[i], "approved", t)]
      \* executeActions: the approved ones are dispatched, in order
      marked   == [i \in DOMAIN list |->
                     IF req[i].action.status = "approved"
                     THEN [was |-> TRUE,
                           a   |-> ExecuteAction(
                                     req[i].action,
                                     DispatchOf(req[i].action, outcomes[i]), t)]
                     ELSE [was |-> FALSE, a |-> req[i].action]]
      after    == [i \in DOMAIN list |-> marked[i].a]
      WasApproved(m) == m.was
      approved == LET sel == SelectSeq(marked, WasApproved)
                  IN  [i \in DOMAIN sel |-> sel[i].a]
  IN  /\ stored' = PersistedList(after, t)
      /\ actionHistory' = UpdateActionHistory(actionHistory, stored', t)
      /\ feedbackHistory' =
           StoreEntries(feedbackHistory,
                        [i \in DOMAIN approved |->
                           BuildFeedbackEntry(approved[i], "approved")],
                        FeedbackCap)
      /\ learningHistory' =
           StoreEntries(learningHistory,
                        [i \in DOMAIN approved |->
                           BuildLearningEntry(approved[i], "approved")],
                        LearningCap)
      /\ learningHistoryEntries' =
           StoreEntries(learningHistoryEntries,
                        [i \in DOMAIN approved |->
                           BuildLearningHistoryEntry(approved[i], "executed")],
                        LearningHistoryCap)
      /\ pending' = NoPending
      /\ lastCmd' = Cmd(kind, Null, {list[i] : i \in {j \in DOMAIN list : ~req[j].ok}})
      /\ UNCHANGED <<modifyFlags, outbox>>

\* finalizeApproval('rejected')
FinalizeRejected(kind) ==
  LET t     == now + 1
      list  == pending.list
      req   == [i \in DOMAIN list |->
                  ApplyActionStatusTransition(list[i], "rejected", t)]
      after == [i \in DOMAIN list |->
                  [req[i].action EXCEPT
                     !.executionResult = [status |-> "skipped", reason |-> "rejected"]]]
  IN  /\ stored' = PersistedList(after, t)
      /\ actionHistory' = UpdateActionHistory(actionHistory, stored', t)
      /\ feedbackHistory' =
           StoreEntries(feedbackHistory,
                        [i \in DOMAIN after |-> BuildFeedbackEntry(after[i], "rejected")],
                        FeedbackCap)
      /\ learningHistory' =
           StoreEntries(learningHistory,
                        [i \in DOMAIN after |-> BuildLearningEntry(after[i], "rejected")],
                        LearningCap)
      /\ learningHistoryEntries' =
           StoreEntries(learningHistoryEntries,
                        [i \in DOMAIN after |->
                           BuildLearningHistoryEntry(after[i], "rejected")],
                        LearningHistoryCap)
      /\ pending' = NoPending
      /\ lastCmd' = Cmd(kind, Null, {list[i] : i \in {j \in DOMAIN list : ~req[j].ok}})
      /\ UNCHANGED <<modifyFlags, outbox>>

\* processFeedback(feedback)
ProcessFeedback(text, outcomes, kind) ==
  IF ~pending.some THEN Ignored(kind, Null)
  ELSE CASE ToUpperCase(text) = "JA"   -> FinalizeApproved(outcomes, kind)
         [] ToUpperCase(text) = "NEIN" -> FinalizeRejected(kind)
         [] OTHER                      -> Ignored(kind, Null)

\* handleTelegramText(text)
HandleTelegramText(text, outcomes) ==
  IF awaitingTelegramInput
  THEN LET t       == now + 1
           actions == LoadActionsFromState(t)
           i       == FindIndex(actions, pendingModifyActionId)
       IN  /\ awaitingTelegramInput' = FALSE
           /\ pendingModifyActionId' = Null
           /\ learningHistory' =
                IF pendingModifyActionId # Null
                THEN \* storeActionLearningDecision(actionId, 'modified')
                     IF i = 0 THEN learningHistory
                     ELSE StoreEntries(learningHistory,
                                       <<BuildLearningEntry(actions[i], "modified")>>,
                                       LearningCap)
                ELSE IF pending.some
                THEN StoreEntries(learningHistory,
                                  [j \in DOMAIN pending.list |->
                                     BuildLearningEntry(pending.list[j], "modified")],
                                  LearningCap)
                ELSE learningHistory
           /\ lastCmd' = Cmd("text", Null, {})
           /\ UNCHANGED <<stored, pending, actionHistory, feedbackHistory,
                          learningHistoryEntries, outbox>>
  ELSE IF pending.some THEN ProcessFeedback(text, outcomes, "text")
  ELSE Ignored("text", Null)

\* Outcomes of the handlers a whole-batch reply may dispatch.
BatchOutcomes == [1..Len(pending.list) -> HandlerOutcomes]

\* onStateChange for a non-acknowledged write to memory.feedback
OnFeedbackState ==
  \E text \in Texts, outcomes \in BatchOutcomes :
    /\ now < MaxCommandClock
    /\ now' = now + 1
    /\ ProcessFeedback(text, outcomes, "feedback")
    /\ UNCHANGED <<nextId, cfg, report>>

\* onMessage with a text
OnTelegramText ==
  \E text \in Texts, outcomes \in BatchOutcomes :
    /\ now < MaxCommandClock
    /\ now' = now + 1
    /\ HandleTelegramText(text, outcomes)
    /\ UNCHANGED <<nextId, cfg, report>>

\* The ids a callback token can name: the actions created so far and one
\* that no run created.
CallbackIds == {ActionId(n) : n \in 1..MaxActions} \cup {"zz"}

\* onMessage with callback data action:<id>:<command>
OnActionCallback ==
  \E actionId \in CallbackIds, command \in Commands, outcome \in HandlerOutcomes :
    /\ now < MaxCommandClock
    /\ now' = now + 1
    /\ HandleActionCallback(actionId, command, outcome)
    /\ UNCHANGED <<nextId, cfg, report>>

\* onMessage with other callback data: approve_all, reject_all, anything else
\* Callback data that does not match action:<id>:<command>
BatchTokens == {"approve_all", "reject_all", "noop"}

\* Mutant: any token decides the batch
HandleTelegramCallbackApproving(data, outcomes) ==
  IF ~pending.some THEN Ignored("callback", Null)
  ELSE CASE data = "reject_all" -> FinalizeRejected("callback")
         [] OTHER               -> FinalizeApproved(outcomes, "callback")

\* handleTelegramCallback below the action:<id>:<command> match
HandleTelegramCallback(data, outcomes) ==
  IF ~pending.some THEN Ignored("callback", Null)
  ELSE CASE data = "approve_all" -> FinalizeApproved(outcomes, "callback")
         [] data = "reject_all"  -> FinalizeRejected("callback")
         [] OTHER                -> Ignored("callback", Null)

OnBatchCallback ==
  \E data \in BatchTokens, outcomes \in BatchOutcomes :
    /\ now < MaxCommandClock
    /\ now' = now + 1
    /\ HandleTelegramCallback(data, outcomes)
    /\ UNCHANGED <<nextId, cfg, report>>

approvalVars ==
  <<stored, pending, actionHistory, feedbackHistory, learningHistory,
    learningHistoryEntries, awaitingTelegramInput, pendingModifyActionId,
    outbox, nextId, cfg, lastCmd, report>>

recordVars == <<rec, recLast>>

(***************************************************************************)
(* SpecRun: the triggers of the analysis pipeline and the run lock         *)
(***************************************************************************)

Triggers == 1..MaxTriggers

NoTrigger ==
  [kind        |-> "none",   \* "control", "interval", "startup"
   pc          |-> "none",   \* "reset", "lock", "body", "final", "done"
   resetDone   |-> FALSE,    \* this handler wrote control.run = false, ack
   arrivedBusy |-> FALSE,    \* this.running when the trigger arrived
   sawBusy     |-> FALSE,    \* this.running when the handler examined it
   result      |-> "none",   \* "skipped", "ran"
   ending      |-> "none"]   \* "ok", "bodyThrew", "finalThrew"

InitRun ==
  /\ running = FALSE
  /\ controlRun = [val |-> FALSE, ack |-> TRUE]
  /\ runEvents = <<>>
  /\ trig = [t \in Triggers |-> NoTrigger]
  /\ warnings = 0
  /\ adapter = [started |-> FALSE, intervalTimer |-> FALSE]

ParkRun ==
  /\ InitRun
  /\ mode = "manual"

FreeSlots == {t \in Triggers : trig[t].kind = "none"}

FirstFree == CHOOSE t \in FreeSlots : \A u \in FreeSlots : t <= u

\* Undelivered writes of true: each may become a trigger.
Reserved == Cardinality({i \in DOMAIN runEvents : runEvents[i].val = TRUE})

ExecutingPcs == {"body", "final"}

Executing == {t \in Triggers : trig[t].pc \in ExecutingPcs}

\* Mutant: the lock is taken without looking at it.
LockIsHeldNever(flag) == FALSE

\* if (this.running)
LockIsHeld(flag) == flag

\* Mutant: a trigger that finds the lock held waits for it.
PcWhenBusyWait == "lock"

\* A trigger that finds the lock held returns.
PcWhenBusy == "done"

\* The check of this.running and, when it is free, this.running = true: one
\* synchronous block in onStateChange and in runAnalysisWithLock.
TryLock(t, kind, resetDone, arrivedBusy) ==
  IF LockIsHeld(running)
  THEN /\ trig' = [trig EXCEPT ![t] =
                     [NoTrigger EXCEPT
                        !.kind = kind, !.pc = PcWhenBusy, !.resetDone = resetDone,
                        !.arrivedBusy = arrivedBusy, !.sawBusy = TRUE,
                        !.result = IF PcWhenBusy = "done" THEN "skipped" ELSE "none"]]
       /\ warnings' = warnings + 1
       /\ UNCHANGED running
  ELSE /\ trig' = [trig EXCEPT ![t] =
                     [NoTrigger EXCEPT
                        !.kind = kind, !.pc = "body", !.resetDone = resetDone,
                        !.arrivedBusy = arrivedBusy, !.sawBusy = FALSE,
                        !.result = "ran"]]
       /\ running' = TRUE
       /\ UNCHANGED warnings

\* onReady -> startScheduler: in manual mode nothing is armed; otherwise the
\* interval timer is armed and the startup analysis is triggered.
StartScheduler ==
  /\ ~adapter.started
  /\ IF mode = "manual"
     THEN /\ adapter' = [started |-> TRUE, intervalTimer |-> FALSE]
          /\ UNCHANGED <<trig, running, warnings>>
     ELSE /\ adapter' = [started |-> TRUE, intervalTimer |-> TRUE]
          /\ TryLock(FirstFree, "startup", FALSE, running)
  /\ UNCHANGED <<controlRun, runEvents, mode>>

\* The interval timer fires: runAnalysisWithLock('interval')
IntervalFire ==
  /\ adapter.intervalTimer
  /\ Cardinality(FreeSlots) > Reserved
  /\ TryLock(FirstFree, "interval", FALSE, running)
  /\ UNCHANGED <<controlRun, runEvents, adapter, mode>>

\* Somebody writes true to control.run, acknowledged or not.
WriteControlRun ==
  \E ack \in BOOLEAN :
    /\ adapter.started
    /\ Cardinality(FreeSlots) > Reserved
    /\ controlRun' = [val |-> TRUE, ack |-> ack]
    /\ runEvents' = Append(runEvents, [val |-> TRUE, ack |-> ack])
    /\ UNCHANGED <<running, trig, warnings, adapter, mode>>

\* onStateChange: if (state.ack) return; ... state.val === true
IsTrigger(state) == ~state.ack /\ state.val = TRUE

\* Mutant: the handler goes to the lock without resetting control.run.
PcAfterObserveNoReset == "lock"

\* The first thing the handler does for a trigger is the reset write.
PcAfterObserve == "reset"

\* onStateChange is called with the next change of control.run.
OnStateChange ==
  /\ runEvents # <<>>
  /\ runEvents' = Tail(runEvents)
  /\ IF IsTrigger(Head(runEvents))
     THEN trig' = [trig EXCEPT ![FirstFree] =
                     [NoTrigger EXCEPT !.kind = "control", !.pc = PcAfterObserve,
                                       !.arrivedBusy = running]]
     ELSE UNCHANGED trig
  /\ UNCHANGED <<running, controlRun, warnings, adapter, mode>>

\* await this.setStateAsync('control.run', false, true)
ResetControlRun(t) ==
  /\ trig[t].pc = "reset"
  /\ controlRun' = [val |-> FALSE, ack |-> TRUE]
  /\ runEvents' = Append(runEvents, [val |-> FALSE, ack |-> TRUE])
  /\ trig' = [trig EXCEPT ![t].pc = "lock", ![t].resetDone = TRUE]
  /\ UNCHANGED <<running, warnings, adapter, mode>>

\* The handler resumes after the reset write and examines the lock.
ExamineLock(t) ==
  /\ trig[t].pc = "lock"
  /\ TryLock(t, trig[t].kind, trig[t].resetDone, trig[t].arrivedBusy)
  /\ UNCHANGED <<controlRun, runEvents, adapter, mode>>

\* The try block of runAnalysis ends: it completes or it throws; the finally
\* block of runAnalysis begins.
RunBody(t) ==
  \E threw \in BOOLEAN :
    /\ trig[t].pc = "body"
    /\ trig' = [trig EXCEPT ![t].pc = "final",
                            ![t].ending = IF threw THEN "bodyThrew" ELSE "ok"]
    /\ UNCHANGED <<running, controlRun, runEvents, warnings, adapter, mode>>

\* Mutant: the lock is cleared after a run that returned, not in a finally.
LockAfterRunNoFinally(ending) == ending = "finalThrew"

\* finally { this.running = false }
LockAfterRun(ending) == FALSE

\* The finally block of runAnalysis (the writes of report.last,
\* report.actions, the approval request, info.lastError) completes or one of
\* its writes throws; then the caller's finally clears the lock.
RunFinalize(t) ==
  \E threw \in BOOLEAN :
    LET ending == IF threw THEN "finalThrew" ELSE trig[t].ending
    IN  /\ trig[t].pc = "final"
        /\ trig' = [trig EXCEPT ![t].pc = "done", ![t].ending = ending]
        /\ running' = LockAfterRun(ending)
        /\ UNCHANGED <<controlRun, runEvents, warnings, adapter, mode>>

runVars == <<running, controlRun, runEvents, trig, warnings, adapter, mode>>

(***************************************************************************)
(* SpecDaily: the daily report scheduler                                   *)
(* Instants are hours since the first local midnight of the window; the    *)
(* configured timezone has a day of 23 hours and a day of 25 hours.        *)
(***************************************************************************)

\* DAY_MS, in hours
DayHours == 24

\* The zone's clock goes forward one hour at 01:00 of the second day ...
SpringForward == DayHours + 1

\* ... and back one hour at 02:00 summer time of the fourth day.
FallBack == 3 * DayHours + 1

\* The instants of the window
Horizon == DayHours * MaxDays

\* What Intl.DateTimeFormat knows about the zone: its offset from UTC.
ZoneOffset(date) == IF date >= SpringForward /\ date < FallBack THEN 1 ELSE 0

\* The calendar of the window: its first day is 2024-03-09.
FirstDay == [year |-> 2024, month |-> 3, day |-> 9]

\* getDatePartsInTimeZone(date, timeZone)
GetDatePartsInTimeZone(date) ==
  LET local == date + ZoneOffset(date)
  IN  [year |-> FirstDay.year, month |-> FirstDay.month,
       day |-> FirstDay.day + (local \div DayHours), hour |-> local % DayHours]

\* Date.UTC(year, month - 1, day, hour, ...): hours out of range carry over
DateUTC(parts) == (parts.day - FirstDay.day) * DayHours + parts.hour

\* getTimeZoneOffset(date, timeZone)
GetTimeZoneOffset(date) == DateUTC(GetDatePartsInTimeZone(date)) - date

\* buildDateInTimeZone(parts, timeZone): the offset is taken at the guess
BuildDateInTimeZone(parts) ==
  LET utcGuess == DateUTC(parts)
  IN  utcGuess - GetTimeZoneOffset(utcGuess)

\* String(n).padStart(2, '0')
PadStart2(n) == IF n < 10 THEN "0" \o ToString(n) ELSE ToString(n)

\* formatDateStamp(date, timeZone)
FormatDateStamp(date) ==
  LET parts == GetDatePartsInTimeZone(date)
  IN  ToString(parts.year) \o "-" \o PadStart2(parts.month) \o "-" \o PadStart2(parts.day)

\* getNextDailyReportSchedule(config).nextRun, with a configured timezone
GetNextDailyReportSchedule(config, t) ==
  LET nowParts == GetDatePartsInTimeZone(t)
      target == BuildDateInTimeZone([nowParts EXCEPT !.hour = config.hour])
      tomorrowParts == GetDatePartsInTimeZone(t + DayHours)
  IN  IF target <= t
      THEN BuildDateInTimeZone([tomorrowParts EXCEPT !.hour = config.hour])
      ELSE target

\* No timer armed (this.dailyReportTimer = null)
NoTimer == 0 - 1

\* scheduleNextDailyReport: the timer fires at nextRun, and at once when
\* nextRun is not in the future (the delay is at least one second).
ScheduleNextDailyReport(config, t) ==
  LET nextRun == GetNextDailyReportSchedule(config, t)
  IN  IF nextRun > t THEN nextRun ELSE t

\* The local dates of the window, as day numbers from 0
Days == 0..MaxDays

LocalDay(date) == GetDatePartsInTimeZone(date).day - FirstDay.day

LocalHour(date) == GetDatePartsInTimeZone(date).hour

\* The hours the report is configured for
ScheduleHours == {1, 8, 23}

NoDailyRun == [runs |-> 0, sent |-> 0, failed |-> 0]

IdleExec == [pc |-> "idle", today |-> Null]

InitDaily ==
  /\ utcHour = 0
  /\ dailyLastSent \in {"", FormatDateStamp(0)}
  /\ dailyTimer = NoTimer
  /\ dailyExec = IdleExec
  /\ dailyLog = [d \in Days |-> NoDailyRun]
  /\ dailyAdapter = [up |-> FALSE, starts |-> 0]

ParkDaily ==
  /\ utcHour = 0
  /\ dailyCfg = [enabled |-> FALSE, hour |-> 8, telegram |-> "on"]
  /\ dailyLastSent = ""
  /\ dailyTimer = NoTimer
  /\ dailyExec = IdleExec
  /\ dailyLog = [d \in Days |-> NoDailyRun]
  /\ dailyAdapter = [up |-> FALSE, starts |-> 0]

\* Time passes; a timer that is due fires first, and an execution takes
\* less than an hour.
Tick ==
  /\ utcHour < Horizon - 1
  /\ dailyExec.pc = "idle"
  /\ dailyTimer # utcHour
  /\ utcHour' = utcHour + 1
  /\ UNCHANGED <<dailyCfg, dailyLastSent, dailyTimer, dailyExec, dailyLog, dailyAdapter>>

\* onReady -> startScheduler -> startDailyReportScheduler; the adapter
\* starts with the configuration as it was last saved, so the report time
\* may differ from the one of the previous start.
StartDailyReportScheduler ==
  \E hour \in ScheduleHours :
    LET config == [dailyCfg EXCEPT !.hour = hour]
    IN  /\ ~dailyAdapter.up
        /\ dailyAdapter.starts < MaxStarts
        /\ dailyAdapter' = [up |-> TRUE, starts |-> dailyAdapter.starts + 1]
        /\ dailyCfg' = config
        /\ dailyTimer' = IF config.enabled
                         THEN ScheduleNextDailyReport(config, utcHour)
                         ELSE NoTimer
        /\ UNCHANGED <<utcHour, dailyLastSent, dailyExec, dailyLog>>

\* onUnload, followed by the end of the process; taken between executions.
OnUnload ==
  /\ dailyAdapter.up
  /\ dailyExec.pc = "idle"
  /\ dailyAdapter' = [dailyAdapter EXCEPT !.up = FALSE]
  /\ dailyTimer' = NoTimer
  /\ adapter' = [adapter EXCEPT !.intervalTimer = FALSE]
  /\ UNCHANGED <<utcHour, dailyCfg, dailyLastSent, dailyExec, dailyLog>>

\* Mutant: the stamp is not compared.
AlreadySentNever(lastSent, todayStamp) == FALSE

\* if (lastSent === todayStamp)
AlreadySent(lastSent, todayStamp) == lastSent = todayStamp

LogRun(log, day, sent, failed) ==
  [log EXCEPT ![day] = [runs |-> @.runs + 1, sent |-> @.sent + sent,
                        failed |-> @.failed + failed]]

\* The timer fires: runDailyReportIfDue up to buildDailyReport. An execution
\* that skips returns, and the timer callback arms the next timer.
DailyTimerFires ==
  LET todayStamp == FormatDateStamp(utcHour)
      skip == \/ ~dailyCfg.enabled
              \/ dailyCfg.telegram = "off"
              \/ AlreadySent(dailyLastSent, todayStamp)
  IN  /\ dailyTimer = utcHour
      /\ dailyExec.pc = "idle"
      /\ IF skip
         THEN /\ dailyExec' = IdleExec
              /\ dailyLog' = LogRun(dailyLog, LocalDay(utcHour), 0, 0)
              /\ dailyTimer' = IF dailyCfg.enabled
                               THEN ScheduleNextDailyReport(dailyCfg, utcHour)
                               ELSE NoTimer
         ELSE /\ dailyExec' = [pc |-> "build", today |-> todayStamp]
              /\ dailyTimer' = NoTimer
              /\ UNCHANGED dailyLog
      /\ UNCHANGED <<utcHour, dailyCfg, dailyLastSent, dailyAdapter>>

DeliveryOutcomes == {"ok", "buildThrew", "sendThrew"}

\* runDailyReportIfDue from buildDailyReport on: the report is built, handed
\* to sendTelegramMessage and the stamp is written; sendTelegramMessage
\* returns without sending when no instance is configured and swallows an
\* exception of sendTo. Then the timer callback arms the next timer.
DailyDeliver ==
  \E outcome \in DeliveryOutcomes :
    LET handed == outcome = "ok" /\ dailyCfg.telegram = "on"
    IN  /\ dailyExec.pc = "build"
        /\ dailyExec' = IdleExec
        /\ dailyLastSent' = IF outcome = "buildThrew" THEN dailyLastSent
                            ELSE dailyExec.today
        /\ dailyLog' = LogRun(dailyLog, LocalDay(utcHour),
                              IF handed THEN 1 ELSE 0,
                              IF outcome = "ok" THEN 0 ELSE 1)
        /\ dailyTimer' = IF dailyCfg.enabled
                         THEN ScheduleNextDailyReport(dailyCfg, utcHour)
                         ELSE NoTimer
        /\ UNCHANGED <<utcHour, dailyCfg, dailyAdapter>>

dailyVars ==
  <<utcHour, dailyCfg, dailyLastSent, dailyTimer, dailyExec, dailyLog, dailyAdapter>>

(***************************************************************************)
(* SpecDedupe: the merge of the action lists of a run                      *)
(***************************************************************************)

\* a || b on strings: the empty string and a missing field are falsy
OrString(a, b) == IF a # "" THEN a ELSE b

\* An entry of the input that is null or undefined
NullAction ==
  [present |-> FALSE, id |-> "", category |-> "", type |-> "",
   learningKey |-> "", deviationRef |-> "", title |-> ""]

\* The actions the lists are built from: with and without id, with and
\* without category, two versions of each, and an id that reads like the
\* key of an action without id.
DedupeItems ==
  {NullAction} \cup
  [present : {TRUE}, id : {"", "a1", "unknown:action:k:"},
   category : {"", "unknown"}, type : {""}, learningKey : {"", "k"},
   deviationRef : {""}, title : {"old", "new"}]

\* All lists of up to n entries
ListsUpTo(n) == UNION {[1..k -> DedupeItems] : k \in 0..n}

\* const key = action.id || `${category || 'unknown'}:${type || 'action'}:...`
DedupeKey(action) ==
  OrString(action.id,
           OrString(action.category, "unknown") \o ":" \o
           OrString(action.type, "action") \o ":" \o
           OrString(action.learningKey, "") \o ":" \o
           OrString(action.deviationRef, ""))

\* uniqueMap.has(key)
MapHas(map, key) == \E i \in DOMAIN map : map[i].key = key

\* uniqueMap.set(key, action): a new key goes to the end, a known key keeps
\* its place and gets the new value
MapSet(map, key, action) ==
  IF MapHas(map, key)
  THEN [i \in DOMAIN map |->
          IF map[i].key = key THEN [key |-> key, value |-> action] ELSE map[i]]
  ELSE Append(map, [key |-> key, value |-> action])

\* Mutant: the newest entry first
MapValuesNewestFirst(map) == [i \in DOMAIN map |-> map[Len(map) + 1 - i].value]

\* Array.from(uniqueMap.values())
MapValues(map) == [i \in DOMAIN map |-> map[i].value]

RECURSIVE DedupeLoop(_, _, _)
\* for (const action of actions) { if (!action) continue; ... }
DedupeLoop(map, actions, i) ==
  IF i > Len(actions) THEN map
  ELSE IF ~actions[i].present THEN DedupeLoop(map, actions, i + 1)
  ELSE DedupeLoop(MapSet(map, DedupeKey(actions[i]), actions[i]), actions, i + 1)

\* dedupeActions(actions)
DedupeActions(actions) == MapValues(DedupeLoop(<<>>, actions, 1))

InitDedupe ==
  \E input \in ListsUpTo(MaxLen) :
    dedupe = [phase |-> "input", input |-> input, once |-> <<>>, twice |-> <<>>]

ParkDedupe ==
  dedupe = [phase |-> "input", input |-> <<>>, once |-> <<>>, twice |-> <<>>]

\* finalActions = this.dedupeActions([...])
MergeOnce ==
  /\ dedupe.phase = "input"
  /\ dedupe' = [dedupe EXCEPT !.phase = "once",
                              !.once = DedupeActions(dedupe.input)]

\* The merge applied to its own output
MergeAgain ==
  /\ dedupe.phase = "once"
  /\ dedupe' = [dedupe EXCEPT !.phase = "twice",
                              !.twice = DedupeActions(dedupe.once)]

(***************************************************************************)
(* SpecAggregate: aggregateSeries on one sample list                       *)
(* A JavaScript value is a record: a number num/den, NaN, Infinity or null. *)
(***************************************************************************)

DayStartHour == 6
NightStartHour == 22

Num(n, d) == [kind |-> "number", num |-> n, den |-> d]
NaN == [kind |-> "NaN", num |-> 0, den |-> 1]
Infinity == [kind |-> "Infinity", num |-> 0, den |-> 1]
JsNull == [kind |-> "null", num |-> 0, den |-> 1]

\* Number(value): null converts to 0, every other value here is a number
\* already.
ToNumber(value) == IF value.kind = "null" THEN Num(0, 1) ELSE value

\* Number.isFinite(value)
IsFinite(value) == value.kind = "number"

\* The timestamps of the samples, and new Date(ts).getHours() for each:
\* one in the night before the day, one in the day, one in the night after.
SampleTimes == 1..3
GetHours(ts) == <<3, 12, 23>>[ts]

SampleValues == {Num(0, 1), Num(4, 1), NaN, Infinity, JsNull}

Samples == [ts : SampleTimes, value : SampleValues]

SeriesUpTo(n) == UNION {[1..k -> Samples] : k \in 0..n}

AllNull ==
  [avg |-> JsNull, min |-> JsNull, max |-> JsNull, last |-> JsNull,
   dayAvg |-> JsNull, nightAvg |-> JsNull]

RECURSIVE SumOf(_)
\* values.reduce((acc, value) => acc + value, 0), on finite whole numbers
SumOf(values) ==
  IF values = <<>> THEN 0 ELSE values[1].num + SumOf(Tail(values))

\* averageNumbers(values)
AverageNumbers(values) ==
  LET valid == SelectSeq(values, IsFinite)
  IN  IF Len(valid) = 0 THEN JsNull ELSE Num(SumOf(valid), Len(valid))

\* series.map((entry) => Number(entry.value))
NumbersOf(series) == [i \in DOMAIN series |-> ToNumber(series[i].value)]

IsDayEntry(entry) ==
  GetHours(entry.ts) >= DayStartHour /\ GetHours(entry.ts) < NightStartHour

IsNightEntry(entry) == ~IsDayEntry(entry)

\* series.reduce(...): the first entry with the greatest timestamp
LatestIndex(series) ==
  CHOOSE i \in DOMAIN series :
    /\ \A j \in DOMAIN series : series[j].ts <= series[i].ts
    /\ \A j \in DOMAIN series : j < i => series[j].ts < series[i].ts

\* last ? Number(last.value) : null
LastValue(series) == ToNumber(series[LatestIndex(series)].value)

\* aggregateSeries(series)
AggregateSeries(series) ==
  IF Len(series) = 0 THEN AllNull
  ELSE LET values == SelectSeq(NumbersOf(series), IsFinite)
       IN  IF Len(values) = 0 THEN AllNull
           ELSE [avg      |-> Num(SumOf(values), Len(values)),
                 min      |-> Num(CHOOSE m \in Range([i \in DOMAIN values |-> values[i].num]) :
                                    \A i \in DOMAIN values : m <= values[i].num, 1),
                 max      |-> Num(CHOOSE m \in Range([i \in DOMAIN values |-> values[i].num]) :
                                    \A i \in DOMAIN values : m >= values[i].num, 1),
                 last     |-> LastValue(series),
                 dayAvg   |-> AverageNumbers(NumbersOf(SelectSeq(series, IsDayEntry))),
                 nightAvg |-> AverageNumbers(NumbersOf(SelectSeq(series, IsNightEntry)))]

InitAggregate ==
  \E series \in SeriesUpTo(MaxLen) :
    agg = [phase |-> "input", series |-> series, out |-> AllNull]

ParkAggregate == agg = [phase |-> "input", series |-> <<>>, out |-> AllNull]

\* aggregateData: aggregate: aggregateSeries(series.values)
AggregateData ==
  /\ agg.phase = "input"
  /\ agg' = [agg EXCEPT !.phase = "done", !.out = AggregateSeries(agg.series)]

(***************************************************************************)
(* SpecHistory: updateActionHistory on a history at or below its cap       *)
(***************************************************************************)

\* Largest number of persist operations in a row.
MaxPersists == 2

\* Largest number of actions one persist operation writes.
MaxWrite == 2

\* The history loaded from report.actionHistory: n entries written one
\* after the other by earlier persists, oldest first.
StoredHistory(n) ==
  [i \in 1..n |->
     [id        |-> ActionId(i),
      action    |-> NewAction(ActionId(i), CategoryOf(i), LearningKeyOf(i), 1),
      updatedAt |-> 1]]

\* The lengths of the loaded history: empty, one entry, one below the cap,
\* at the cap.
HistoryLengths == {0, 1, ActionHistoryCap - 1, ActionHistoryCap}

\* The actions a persist may write: the two oldest of a full history and one
\* the history does not hold.
WrittenNumbers == {1, 2, ActionHistoryCap + 1}

WriteLists == UNION {[1..k -> WrittenNumbers] : k \in 0..MaxWrite}

InitHistory ==
  \E n \in HistoryLengths :
    hist = [history |-> StoredHistory(n), before |-> StoredHistory(n),
            written |-> {}, persists |-> 0]

ParkHistory ==
  hist = [history |-> <<>>, before |-> <<>>, written |-> {}, persists |-> 0]

\* persistActions(actions): updateActionHistory(normalizedActions)
PersistActions ==
  \E numbers \in WriteLists :
    LET t       == hist.persists + 2
        actions == [i \in DOMAIN numbers |->
                      NewAction(ActionId(numbers[i]), CategoryOf(numbers[i]),
                                LearningKeyOf(numbers[i]), t)]
    IN  /\ hist.persists < MaxPersists
        /\ hist' = [history  |-> UpdateActionHistory(hist.history,
                                                     PersistedList(actions, t), t),
                    before   |-> hist.history,
                    written  |-> {actions[i].id : i \in DOMAIN actions},
                    persists |-> hist.persists + 1]

(***************************************************************************)
(* SpecInterleaved: approval commands that suspend at their state I/O      *)
(* A command runs from one suspension to the next in one step.  A read or  *)
(* write of report.actions takes effect when it is issued; the handlers of *)
(* getActionHandlers do no I/O, so executeAction runs within one step.     *)
(***************************************************************************)

\* Largest number of approval commands received.
MaxHandlers == 3

HandlerSlots == 1..MaxHandlers

IdleHandler ==
  [kind |-> "none", pc |-> "idle", id |-> Null, local |-> <<>>, mine |-> {}]

InitInterleaved ==
  /\ handlers = [s \in HandlerSlots |-> IdleHandler]
  /\ invocations = [id \in {ActionId(n) : n \in 1..MaxActions} |-> 0]

ParkInterleaved == InitInterleaved

\* The slot of the next command received.
NextSlot == CHOOSE s \in HandlerSlots :
              handlers[s].pc = "idle" /\ \A r \in HandlerSlots : r < s => handlers[r].pc # "idle"

\* executeAction calls handlers[action.category](action)
HandlerCalled(action, outcome) == DispatchOf(action, outcome) \in HandlerOutcomes

\* onMessage with callback data action:<id>:approve, up to
\* await this.loadActionsFromState()
OnApproveCallback ==
  \E actionId \in CallbackIds :
    LET t == now + 1
    IN  /\ now < MaxCommandClock
        /\ \E s \in HandlerSlots : handlers[s].pc = "idle"
        /\ now' = t
        /\ handlers' = [handlers EXCEPT ![NextSlot] =
                          [kind |-> "approve", pc |-> "loaded", id |-> actionId,
                           local |-> LoadActionsFromState(t), mine |-> {}]]
        /\ UNCHANGED <<stored, pending, actionHistory, approvalStores, modifyFlags,
                       outbox, nextId, cfg, lastCmd, report, invocations>>

\* handleActionCallback from the loaded list to await this.persistActions:
\* the transition to approved, executeAction, the write of report.actions
ApproveExecute(s) ==
  \E outcome \in HandlerOutcomes :
    LET h       == handlers[s]
        actions == h.local
        i       == FindIndex(actions, h.id)
        r       == ApplyActionStatusTransition(actions[i], "approved", now)
        action  == ExecuteAction(r.action, DispatchOf(r.action, outcome), now)
    IN  /\ h.kind = "approve" /\ h.pc = "loaded"
        /\ IF Len(actions) = 0 \/ i = 0 \/ ~r.ok
           THEN /\ handlers' = [handlers EXCEPT ![s].pc = "done"]
                /\ UNCHANGED <<stored, invocations>>
           ELSE /\ handlers' = [handlers EXCEPT
                                  ![s].pc = "persisting",
                                  ![s].local = [actions EXCEPT ![i] = action],
                                  ![s].mine = {h.id}]
                /\ stored' = PersistedList([actions EXCEPT ![i] = action], now)
                /\ invocations' =
                     IF HandlerCalled(r.action, outcome)
                     THEN [invocations EXCEPT ![h.id] = @ + 1]
                     ELSE invocations
        /\ UNCHANGED <<now, pending, actionHistory, approvalStores, modifyFlags,
                       outbox, nextId, cfg, lastCmd, report>>

\* handleActionCallback after await this.persistActions: the history, the
\* confirmation, the feedback and learning entries, updatePendingAction
ApproveFinish(s) ==
  LET h      == handlers[s]
      action == h.local[FindIndex(h.local, h.id)]
  IN  /\ h.kind = "approve" /\ h.pc = "persisting"
      /\ handlers' = [handlers EXCEPT ![s].pc = "done"]
      /\ actionHistory' =
           UpdateActionHistory(actionHistory, PersistedList(h.local, now), now)
      /\ outbox' = SendTelegramMessage(outbox, Confirmation(action, "approved"))
      /\ feedbackHistory' =
           StoreEntries(feedbackHistory,
                        <<BuildFeedbackEntry(action, "approved")>>, FeedbackCap)
      /\ learningHistoryEntries' =
           StoreEntries(learningHistoryEntries,
                        <<BuildLearningHistoryEntry(action, "executed")>>,
                        LearningHistoryCap)
      /\ learningHistory' =
           StoreEntries(learningHistory,
                        <<BuildLearningEntry(action, "approved")>>, LearningCap)
      /\ pending' = UpdatePendingAction(pending, action)
      /\ UNCHANGED <<now, stored, modifyFlags, nextId, cfg, lastCmd, report,
                     invocations>>

\* A whole-batch reply JA: processFeedback, finalizeApproval('approved') and
\* executeActions up to await this.persistActions.  The actions of
\* this.pendingActions are changed in place.
OnJaReply ==
  \E outcomes \in BatchOutcomes :
    LET t      == now + 1
        list   == pending.list
        req    == [i \in DOMAIN list |->
                     ApplyActionStatusTransition(list[i], "approved", t)]
        ran    == {i \in DOMAIN list : req[i].action.status = "approved"}
        after  == [i \in DOMAIN list |->
                     IF i \in ran
                     THEN ExecuteAction(req[i].action,
                                        DispatchOf(req[i].action, outcomes[i]), t)
                     ELSE req[i].action]
    IN  /\ now < MaxCommandClock
        /\ \E s \in HandlerSlots : handlers[s].pc = "idle"
        /\ now' = t
        /\ IF ~pending.some
           THEN /\ handlers' = [handlers EXCEPT ![NextSlot] =
                                  [IdleHandler EXCEPT !.kind = "ja", !.pc = "done"]]
                /\ UNCHANGED <<stored, pending, invocations>>
           ELSE /\ handlers' = [handlers EXCEPT ![NextSlot] =
                                  [kind |-> "ja", pc |-> "persisting", id |-> Null,
                                   local |-> after,
                                   mine |-> {list[i].id : i \in ran}]]
                /\ pending' = [some |-> TRUE, list |-> after]
                /\ stored' = PersistedList(after, t)
                /\ invocations' =
                     [id \in DOMAIN invocations |->
                        IF \E i \in ran : list[i].id = id
                                          /\ HandlerCalled(req[i].action, outcomes[i])
                        THEN invocations[id] + 1 ELSE invocations[id]]
        /\ UNCHANGED <<actionHistory, approvalStores, modifyFlags, outbox, nextId,
                       cfg, lastCmd, report>>

\* executeActions after await this.persistActions, and the end of
\* finalizeApproval: this.pendingActions = null
JaFinish(s) ==
  LET h        == handlers[s]
      IsMine(a) == a.id \in h.mine
      approved == SelectSeq(h.local, IsMine)
  IN  /\ h.kind = "ja" /\ h.pc = "persisting"
      /\ handlers' = [handlers EXCEPT ![s].pc = "done"]
      /\ actionHistory' =
           UpdateActionHistory(actionHistory, PersistedList(h.local, now), now)
      /\ feedbackHistory' =
           StoreEntries(feedbackHistory,
                        [i \in DOMAIN approved |->
                           BuildFeedbackEntry(approved[i], "approved")],
                        FeedbackCap)
      /\ learningHistory' =
           StoreEntries(learningHistory,
                        [i \in DOMAIN approved |->
                           BuildLearningEntry(approved[i], "approved")],
                        LearningCap)
      /\ learningHistoryEntries' =
           StoreEntries(learningHistoryEntries,
                        [i \in DOMAIN approved |->
                           BuildLearningHistoryEntry(approved[i], "executed")],
                        LearningHistoryCap)
      /\ pending' = NoPending
      /\ UNCHANGED <<now, stored, modifyFlags, outbox, nextId, cfg, lastCmd,
                     report, invocations>>

interleavedVars == <<handlers, invocations>>

(***************************************************************************)
(* SpecMerge: the ids the generators of one run assign, and the merge      *)
(***************************************************************************)

MaxMs == 2
MaxDeviations == 2
MaxSuggestions == 2

\* `${baseId}-${index}`
GeneratedId(baseId, index) == ToString(baseId) \o "-" \o ToString(index)

\* An action as far as the merge reads it
MergeAction(id, category, type, learningKey, deviationRef, source) ==
  [present |-> TRUE, id |-> id, category |-> category, type |-> type,
   learningKey |-> learningKey, deviationRef |-> deviationRef,
   source |-> source]

\* The three rules of buildLiveRuleActions, in the order they are tested
LiveRules ==
  << [category |-> "energy", type |-> "protect_battery",
      learningKey |-> "battery_low"],
     [category |-> "heating", type |-> "check_frost_protection",
      learningKey |-> "frost_risk"],
     [category |-> "energy", type |-> "reduce_load",
      learningKey |-> "grid_peak"] >>

\* buildLiveRuleActions: baseId = Date.now(), index = 1, and one push with
\* id `${baseId}-${index++}` per rule whose condition holds
BuildLiveRuleActions(baseId, fired) ==
  LET Rank(i) == Cardinality({j \in fired : j <= i})
  IN  [k \in 1..Cardinality(fired) |->
         LET i == CHOOSE r \in fired : Rank(r) = k
         IN  MergeAction(GeneratedId(baseId, k), LiveRules[i].category,
                         LiveRules[i].type, LiveRules[i].learningKey,
                         "live:" \o LiveRules[i].type, "live")]

\* context.history.deviations: energy deviations of a mapped type (night,
\* peak) and of a type mapDeviationToAction has no mapping for
Deviations == [type : {"night", "peak", "other"}, id : {"d1", "d2"}]

DeviationLists == UNION {[1..k -> Deviations] : k \in 0..MaxDeviations}

\* mapDeviationToAction, for category energy
MapDeviationToAction(deviation) ==
  IF deviation.type = "night"
  THEN [some |-> TRUE, type |-> "reduce_standby", learningKey |-> "energy_night"]
  ELSE IF deviation.type = "peak"
  THEN [some |-> TRUE, type |-> "avoid_peak", learningKey |-> "energy_peak"]
  ELSE [some |-> FALSE, type |-> "", learningKey |-> ""]

\* isDuplicateAction(action, existing)
IsDuplicateAction(action, existing) ==
  \E i \in DOMAIN existing :
    \/ existing[i].id = action.id
    \/ /\ existing[i].category = action.category
       /\ existing[i].type = action.type
       /\ existing[i].learningKey = action.learningKey
       /\ existing[i].deviationRef = action.deviationRef

RECURSIVE DeviationLoop(_, _, _, _, _)
\* for (const deviation of deviations) { ... }: the index advances with
\* every action built, pushed or skipped as a duplicate
DeviationLoop(actions, deviations, i, baseId, index) ==
  IF i > Len(deviations) THEN actions
  ELSE LET mapping == MapDeviationToAction(deviations[i])
           action  == MergeAction(GeneratedId(baseId, index), "energy",
                                  mapping.type, mapping.learningKey,
                                  deviations[i].id, "deviation")
       IN  IF ~mapping.some
           THEN DeviationLoop(actions, deviations, i + 1, baseId, index)
           ELSE IF IsDuplicateAction(action, actions)
           THEN DeviationLoop(actions, deviations, i + 1, baseId, index + 1)
           ELSE DeviationLoop(Append(actions, action), deviations, i + 1,
                              baseId, index + 1)

\* buildDeviationActions: baseId = Date.now(), index = 1
BuildDeviationActions(baseId, deviations) ==
  DeviationLoop(<<>>, deviations, 1, baseId, 1)

\* The entries of the model's answer: with and without an id of its own,
\* with and without a type
Suggestions == [id : {"", "g1"}, type : {"", "shift_load"}]

SuggestionLists == UNION {[1..k -> Suggestions] : k \in 0..MaxSuggestions}

\* normalizeGptAction(entry, actionContext, baseId, index): null without a
\* type; the entry's own id when it has one, else `${baseId}-${index}`
NormalizeGptAction(entry, baseId, index) ==
  IF entry.type = ""
  THEN [present |-> FALSE, id |-> "", category |-> "", type |-> "",
        learningKey |-> "", deviationRef |-> "", source |-> "gpt"]
  ELSE MergeAction(IF entry.id # "" THEN entry.id ELSE GeneratedId(baseId, index),
                   "energy", entry.type, "energy_" \o entry.type, "", "gpt")

\* buildGptSuggestedActions: baseId = Date.now(), index = 1, index++ for
\* every entry, the entries normalized to null left out
BuildGptSuggestedActions(baseId, suggestions) ==
  LET normalized == [k \in DOMAIN suggestions |->
                       NormalizeGptAction(suggestions[k], baseId, k)]
      IsPresent(a) == a.present
  IN  SelectSeq(normalized, IsPresent)

InitMerge ==
  merge = [phase |-> "start", clock |-> 1, live |-> <<>>, deviation |-> <<>>,
           gpt |-> <<>>, final |-> <<>>]

ParkMerge ==
  merge = [phase |-> "parked", clock |-> 1, live |-> <<>>, deviation |-> <<>>,
           gpt |-> <<>>, final |-> <<>>]

\* The millisecond clock advances while the run goes on
ClockAdvances ==
  /\ merge.phase \in {"start", "live", "deviation"}
  /\ merge.clock < MaxMs
  /\ merge' = [merge EXCEPT !.clock = merge.clock + 1]

\* const liveRuleActions = this.buildLiveRuleActions(context)
DeriveLiveRuleActions ==
  /\ merge.phase = "start"
  /\ \E fired \in SUBSET DOMAIN LiveRules :
       merge' = [merge EXCEPT !.phase = "live",
                              !.live = BuildLiveRuleActions(merge.clock, fired)]

\* const historyDeviationActions = this.buildDeviationActions(context);
\* refineActionsWithGpt keeps the ids
DeriveDeviationActions ==
  /\ merge.phase = "live"
  /\ \E deviations \in DeviationLists :
       merge' = [merge EXCEPT !.phase = "deviation",
                              !.deviation =
                                BuildDeviationActions(merge.clock, deviations)]

\* const gptSuggestedActions = skipAnalysis ? [] :
\*   await this.buildGptSuggestedActions(context)
DeriveGptSuggestedActions ==
  /\ merge.phase = "deviation"
  /\ \E suggestions \in SuggestionLists :
       merge' = [merge EXCEPT !.phase = "gpt",
                              !.gpt =
                                BuildGptSuggestedActions(merge.clock, suggestions)]

\* finalActions = this.dedupeActions([...liveRuleActions,
\*   ...refinedHistoryActions, ...gptSuggestedActions])
MergeRunActions ==
  /\ merge.phase = "gpt"
  /\ merge' = [merge EXCEPT !.phase = "merged",
                            !.final = DedupeActions(merge.live \o merge.deviation
                                                    \o merge.gpt)]

(***************************************************************************)
(* SpecLifecycle: the timers of one adapter instance from construction to  *)
(* unload, and the executions they start                                   *)
(***************************************************************************)

\* How an execution of runDailyReportIfDue ends: the report was sent, it was
\* skipped because today's stamp is set, it was skipped because the report
\* is empty, or the promise was rejected.
ExecutionOutcomes == {"sent", "alreadySent", "empty", "failed"}

\* The instance after its constructor: no timer, nothing in flight
InitLifecycle ==
  \E mode0 \in {"auto", "manual"}, enabled \in BOOLEAN :
    life = [ready |-> "no", unloaded |-> FALSE, mode |-> mode0,
            enabled |-> enabled,
            intervalTimer |-> FALSE, \* this.intervalTimer is armed
            handle |-> "null",       \* this.dailyReportTimer: null, a timer
                                     \*   that is armed, one that has fired
            timers |-> 0,            \* daily timers outstanding
            execs |-> 0,             \* runDailyReportIfDue in flight
            running |-> FALSE,       \* this.running
            last |-> "none",         \* outcome of the last execution
            lateArmed |-> FALSE,     \* a timer was armed after unload
            lateStart |-> FALSE]     \* something was started after unload

ParkLifecycle ==
  life = [ready |-> "parked", unloaded |-> FALSE, mode |-> "auto",
          enabled |-> FALSE, intervalTimer |-> FALSE, handle |-> "null",
          timers |-> 0, execs |-> 0, running |-> FALSE, last |-> "none",
          lateArmed |-> FALSE, lateStart |-> FALSE]

\* clearTimeout(this.dailyReportTimer): a timer that has fired is not
\* outstanding any more
TimersAfterClear(l) == IF l.handle = "armed" THEN l.timers - 1 ELSE l.timers

\* Mutant: the execution's end arms no timer
ArmDailyTimerNever(l) == l

\* scheduleNextDailyReport: this.dailyReportTimer = setTimeout(...)
ArmDailyTimer(l) ==
  [l EXCEPT !.handle = "armed", !.timers = l.timers + 1,
            !.lateArmed = l.lateArmed \/ l.unloaded]

\* runAnalysisWithLock: ignored while this.running
StartAnalysis(l) ==
  IF l.running THEN l
  ELSE [l EXCEPT !.running = TRUE, !.lateStart = l.lateStart \/ l.unloaded]

\* The 'ready' event: onReady up to its first await
OnReadyBegins ==
  /\ life.ready = "no"
  /\ ~life.unloaded
  /\ life' = [life EXCEPT !.ready = "loading"]

\* onReady after its awaits: startScheduler and startDailyReportScheduler
StartSchedulers ==
  /\ life.ready = "loading"
  /\ LET cleared == [life EXCEPT !.ready = "started",
                                 !.timers = TimersAfterClear(life),
                                 !.handle = "null"]
         daily   == IF cleared.enabled THEN ArmDailyTimer(cleared) ELSE cleared
     IN  life' = IF daily.mode = "manual" THEN daily
                 ELSE StartAnalysis(
                        [daily EXCEPT !.intervalTimer = TRUE,
                                      !.lateArmed = daily.lateArmed \/ daily.unloaded])

\* The interval timer fires: runAnalysisWithLock('interval')
IntervalTimerFires ==
  /\ life.intervalTimer
  /\ life' = StartAnalysis(life)

\* runAnalysisWithLock: finally { this.running = false }
AnalysisEnds ==
  /\ life.running
  /\ life' = [life EXCEPT !.running = FALSE]

\* A daily timer fires: the callback calls runDailyReportIfDue
DailyTimerCallback ==
  /\ life.timers > 0
  /\ life' = [life EXCEPT !.timers = life.timers - 1,
                          !.handle = IF life.handle = "armed" THEN "fired"
                                     ELSE life.handle,
                          !.execs = life.execs + 1,
                          !.lateStart = life.lateStart \/ life.unloaded]

\* runDailyReportIfDue settles: .catch logs, .finally arms the next timer
\* when the report is still enabled
DailyExecutionEnds ==
  \E outcome \in ExecutionOutcomes :
    /\ life.execs > 0
    /\ LET ended == [life EXCEPT !.execs = life.execs - 1, !.last = outcome]
       IN  life' = IF ended.enabled THEN ArmDailyTimer(ended) ELSE ended

\* onUnload: both timers are cleared
OnUnloadInstance ==
  /\ life.ready # "no"
  /\ ~life.unloaded
  /\ life' = [life EXCEPT !.unloaded = TRUE,
                          !.intervalTimer = FALSE,
                          !.timers = TimersAfterClear(life),
                          !.handle = "null"]

(***************************************************************************)
(* SpecRequest: the requests of one run to the history adapter             *)
(* (requestHistoryWithTimeout) and to the completion service (withTimeout). *)
(* Time is counted in units of five seconds.                               *)
(***************************************************************************)

MaxTime == 6
MaxRequests == 2

\* timeoutMs = 10000
HistoryTimeout == 2

\* withTimeout(..., 15000, label)
CompletionTimeout == 3

TimeoutOf(kind) == IF kind = "history" THEN HistoryTimeout ELSE CompletionTimeout

\* Mutant: the last promise to settle decides
PromiseRaceLastWins(race, value) == value

\* Promise.race([request, timeoutPromise]): the first promise to settle
\* decides, what settles later is ignored
PromiseRace(race, value) == IF race = "pending" THEN value ELSE race

\* What the caller of the request goes on with: the reply, [] for a history
\* request that timed out or failed, the default of the catch block for a
\* completion request that timed out or failed
ResultOf(kind, race) ==
  CASE race = "data"      -> "data"
    [] kind = "history"   -> "empty"
    [] OTHER              -> "default"

UnsentCall ==
  [kind |-> "history", pc |-> "unsent", start |-> 0, remote |-> "none",
   timer |-> FALSE, race |-> "pending", result |-> "none"]

InitRequest ==
  reqs = [clock |-> 0, cur |-> 0, finalized |-> FALSE,
         calls |-> [r \in 1..MaxRequests |-> UnsentCall]]

ParkRequest ==
  reqs = [clock |-> 0, cur |-> 0, finalized |-> TRUE,
         calls |-> [r \in 1..MaxRequests |-> UnsentCall]]

\* The run reaches its next request: the request is sent and the timeout
\* timer is armed
SendRequest ==
  \E kind \in {"history", "completion"} :
    /\ ~reqs.finalized
    /\ reqs.cur < MaxRequests
    /\ reqs.cur > 0 => reqs.calls[reqs.cur].pc = "returned"
    /\ reqs.clock + TimeoutOf(kind) <= MaxTime
    /\ reqs' = [reqs EXCEPT
                 !.cur = reqs.cur + 1,
                 !.calls[reqs.cur + 1] =
                   [kind |-> kind, pc |-> "waiting", start |-> reqs.clock,
                    remote |-> "pending", timer |-> TRUE, race |-> "pending",
                    result |-> "none"]]

\* The race is settled with value: the awaiting function resumes, returns
\* the result and its finally block clears the timer
Settle(call, value) ==
  LET race == PromiseRace(call.race, value)
  IN  [call EXCEPT !.race = race, !.result = ResultOf(call.kind, race),
                   !.pc = "returned", !.timer = FALSE]

\* The remote side answers with data or with an error, in time or late
RemoteSettles ==
  \E r \in 1..MaxRequests, how \in {"replied", "failed"} :
    /\ reqs.calls[r].remote = "pending"
    /\ reqs' = [reqs EXCEPT
                 !.calls[r] =
                   [Settle(reqs.calls[r], IF how = "replied" THEN "data" ELSE "error")
                      EXCEPT !.remote = how]]

\* The timeout timer of a request fires
TimeoutFires ==
  \E r \in 1..MaxRequests :
    /\ reqs.calls[r].timer
    /\ reqs.clock >= reqs.calls[r].start + TimeoutOf(reqs.calls[r].kind)
    /\ reqs' = [reqs EXCEPT !.calls[r] = Settle(reqs.calls[r], "timeout")]

\* Time passes; a timer that is due fires first
TimePasses ==
  /\ reqs.clock < MaxTime
  /\ \A r \in 1..MaxRequests :
       reqs.calls[r].timer =>
         reqs.clock < reqs.calls[r].start + TimeoutOf(reqs.calls[r].kind)
  /\ reqs' = [reqs EXCEPT !.clock = reqs.clock + 1]

\* The run has no further request: it reaches its finally block
FinalizeRun ==
  /\ ~reqs.finalized
  /\ reqs.cur > 0 => reqs.calls[reqs.cur].pc = "returned"
  /\ reqs' = [reqs EXCEPT !.finalized = TRUE]

(***************************************************************************)
(* SpecStores: the feedback and learning stores, written by the approval   *)
(* commands and reloaded by buildContext.  An entry is the number of the   *)
(* command that appended it.                                               *)
(***************************************************************************)

MaxEntries == 3

\* this.feedbackHistory / memory.feedback, this.learningHistory /
\* memory.learning, this.learningHistoryEntries / memory.history
StoreNames == {"feedback", "learning", "history"}

StoreCapOf(name) ==
  CASE name = "feedback" -> FeedbackCap
    [] name = "learning" -> LearningCap
    [] OTHER             -> LearningHistoryCap

\* buildContext loads feedback, learning, history in this order
LoadOrder == <<"feedback", "learning", "history">>

\* A reject or approve command stores its feedback entry, then its
\* learning-history entry, then its learning entry
StoreOrder == <<"feedback", "history", "learning">>

InitStores ==
  memo = [memory    |-> [n \in StoreNames |-> <<>>],
          persisted |-> [n \in StoreNames |-> <<>>],
          appended  |-> [n \in StoreNames |-> {}],
          commands  |-> 0,
          storer    |-> 0,   \* the store command is suspended before its
                             \*   write to StoreOrder[storer]; 0 when idle
          loader    |-> 0,   \* the reload awaits its read of
                             \*   LoadOrder[loader]; 0 when idle
          got       |-> <<>>] \* the value that read returns

ParkStores ==
  memo = [memory    |-> [n \in StoreNames |-> <<>>],
          persisted |-> [n \in StoreNames |-> <<>>],
          appended  |-> [n \in StoreNames |-> {}],
          commands  |-> MaxEntries, storer |-> 0, loader |-> 0, got |-> <<>>]

\* Mutant: the reload merges what it read into the array in memory
LoadedValueMerged(current, read, cap) ==
  LastN(read \o SelectSeq(current, LAMBDA e : e \notin Range(read)), cap)

\* this.feedbackHistory = parsed.slice(-50): the array in memory is replaced
\* by what was read
LoadedValue(current, read, cap) == LastN(read, cap)

\* store...Entries(entries): the array in memory is extended and cut, then
\* written to the state
StoreInto(m, name, entry) ==
  LET after == StoreEntries(m.memory[name], <<entry>>, StoreCapOf(name))
  IN  [m EXCEPT !.memory[name] = after,
                !.persisted[name] = after,
                !.appended[name] = m.appended[name] \cup {entry}]

\* An approval command reaches storeFeedbackEntries
StoreBegins ==
  /\ memo.storer = 0
  /\ memo.commands < MaxEntries
  /\ memo' = [StoreInto(memo, StoreOrder[1], memo.commands + 1)
                EXCEPT !.commands = memo.commands + 1, !.storer = 2]

\* ... and goes on after the await of its last write
StoreGoesOn ==
  /\ memo.storer > 0
  /\ memo' = [StoreInto(memo, StoreOrder[memo.storer], memo.commands)
                EXCEPT !.storer = IF memo.storer = Len(StoreOrder) THEN 0
                                  ELSE memo.storer + 1]

\* buildContext: await this.loadFeedbackHistory() issues its read
LoadBegins ==
  /\ memo.loader = 0
  /\ memo' = [memo EXCEPT !.loader = 1,
                          !.got = memo.persisted[LoadOrder[1]]]

\* The read returns: the array in memory is assigned, and the next load
\* issues its read
LoadGoesOn ==
  /\ memo.loader > 0
  /\ LET name   == LoadOrder[memo.loader]
         loaded == [memo EXCEPT
                      !.memory[name] =
                        LoadedValue(memo.memory[name], memo.got, StoreCapOf(name))]
     IN  memo' = IF memo.loader = Len(LoadOrder)
                 THEN [loaded EXCEPT !.loader = 0, !.got = <<>>]
                 ELSE [loaded EXCEPT
                         !.loader = memo.loader + 1,
                         !.got = memo.persisted[LoadOrder[memo.loader + 1]]]

(***************************************************************************)
(* SpecDeviations: the deviation checks at the end of buildContext, as a   *)
(* function of the hour, the live sums and the historical baselines.       *)
(***************************************************************************)

\* new Date().getHours(): one hour in the night before the day, one in the
\* day, one in the night after
NowHours == {3, 12, 23}

\* sumLiveRole / sumLiveRoles return null or a finite sum
LiveValues == {JsNull, Num(0, 1), Num(10, 1), Num(30, 1)}

\* The averages of computeAggregate are null or finite
BaselineValues == {JsNull, Num(0, 1), Num(10, 1), Num(30, 1)}

\* a > b on finite numbers
GreaterThan(a, b) == a.num * b.den > b.num * a.den

\* The truth value of a number or null in a condition: null, NaN and 0 are
\* false
Truthy(value) ==
  \/ value.kind = "Infinity"
  \/ value.kind = "number" /\ value.num # 0

\* nowHour < DAY_START_HOUR || nowHour >= NIGHT_START_HOUR
IsNight(nowHour) == nowHour < DayStartHour \/ nowHour >= NightStartHour

PeakDeviation == [category |-> "energy", type |-> "peak"]
NightWaterDeviation == [category |-> "water", type |-> "night"]
BatteryDeviation == [category |-> "energy", type |-> "anomaly"]

\* The three checks, each pushing its deviation when its condition holds
DetectDeviations(in) ==
  LET peak ==
        /\ IsFinite(in.liveHouseConsumption)
        /\ IsFinite(in.houseConsumptionNightAvg)
        /\ GreaterThan(in.liveHouseConsumption,
                       Num(3 * in.houseConsumptionNightAvg.num,
                           2 * in.houseConsumptionNightAvg.den))
      water ==
        /\ IsNight(in.nowHour)
        /\ IsFinite(in.liveWaterUsage)
        /\ Truthy(in.waterNightAvg)
        /\ GreaterThan(in.liveWaterUsage, in.waterNightAvg)
      battery ==
        /\ IsFinite(in.liveBatterySoc)
        /\ IsFinite(in.batterySocAvg)
        /\ GreaterThan(Num(in.batterySocAvg.num - 10 * in.batterySocAvg.den,
                           in.batterySocAvg.den),
                       in.liveBatterySoc)
  IN  (IF peak THEN <<PeakDeviation>> ELSE <<>>)
      \o (IF water THEN <<NightWaterDeviation>> ELSE <<>>)
      \o (IF battery THEN <<BatteryDeviation>> ELSE <<>>)

DeviationInputs ==
  [nowHour : NowHours,
   liveHouseConsumption : LiveValues, houseConsumptionNightAvg : BaselineValues,
   liveWaterUsage : LiveValues, waterNightAvg : BaselineValues,
   liveBatterySoc : LiveValues, batterySocAvg : BaselineValues]

InitDeviations ==
  \E in \in DeviationInputs :
    detect = [phase |-> "input", in |-> in, deviations |-> <<>>]

ParkDeviations ==
  detect = [phase |-> "input",
            in |-> [nowHour |-> 12,
                    liveHouseConsumption |-> JsNull,
                    houseConsumptionNightAvg |-> JsNull,
                    liveWaterUsage |-> JsNull, waterNightAvg |-> JsNull,
                    liveBatterySoc |-> JsNull, batterySocAvg |-> JsNull],
            deviations |-> <<>>]

\* buildContext reaches context.history.deviations = deviations
CheckDeviations ==
  /\ detect.phase = "input"
  /\ detect' = [detect EXCEPT !.phase = "done",
                              !.deviations = DetectDeviations(detect.in)]

\* The variables added after SpecInterleaved, and their values while another
\* specification runs.
laterVars == <<merge, life, reqs, memo, detect>>

ParkLater ==
  ParkMerge /\ ParkLifecycle /\ ParkRequest /\ ParkStores /\ ParkDeviations

\* The variables of the specifications that follow the first five, and
\* their values while another specification runs.
restVars == <<agg, hist, interleavedVars, laterVars>>

ParkRest ==
  /\ ParkAggregate
  /\ ParkHistory
  /\ ParkInterleaved
  /\ ParkLater

vars == <<now, rec, recLast, stored, pending, actionHistory, feedbackHistory,
          learningHistory, learningHistoryEntries, awaitingTelegramInput,
          pendingModifyActionId, outbox, nextId, cfg, lastCmd, report,
          running, controlRun, runEvents, trig, warnings, adapter, mode,
          utcHour, dailyCfg, dailyLastSent, dailyTimer, dailyExec, dailyLog,
          dailyAdapter, dedupe, agg, hist, handlers, invocations, merge, life, reqs, memo, detect>>

(***************************************************************************)
(* The specifications                                                      *)
(***************************************************************************)

NextRecord ==
  \/ (RecTransition /\ UNCHANGED <<approvalVars, runVars, dailyVars, dedupe, restVars>>)
  \/ (RecDecision /\ UNCHANGED <<approvalVars, runVars, dailyVars, dedupe, restVars>>)
  \/ (RecNormalize /\ UNCHANGED <<approvalVars, runVars, dailyVars, dedupe, restVars>>)
  \/ (RecExecute /\ UNCHANGED <<approvalVars, runVars, dailyVars, dedupe, restVars>>)

InitRecordSpec ==
  /\ InitRecord
  /\ ParkApproval
  /\ ParkRun
  /\ ParkDaily
  /\ ParkDedupe
  /\ ParkRest

SpecRecord == InitRecordSpec /\ [][NextRecord]_vars

Init ==
  /\ now = 1
  /\ ParkRecord
  /\ InitApproval
  /\ cfg \in [dryRun : BOOLEAN, telegram : {"on", "off"}]
  /\ ParkRun
  /\ ParkDaily
  /\ ParkDedupe
  /\ ParkRest

Next ==
  \/ (PublishBatch /\ UNCHANGED <<recordVars, runVars, dailyVars, dedupe, restVars>>)
  \/ (OnActionCallback /\ UNCHANGED <<recordVars, runVars, dailyVars, dedupe, restVars>>)
  \/ (OnBatchCallback /\ UNCHANGED <<recordVars, runVars, dailyVars, dedupe, restVars>>)
  \/ (OnTelegramText /\ UNCHANGED <<recordVars, runVars, dailyVars, dedupe, restVars>>)
  \/ (OnFeedbackState /\ UNCHANGED <<recordVars, runVars, dailyVars, dedupe, restVars>>)

Spec == Init /\ [][Next]_vars

InitRunSpec ==
  /\ now = 1
  /\ ParkRecord
  /\ ParkApproval
  /\ InitRun
  /\ mode \in {"manual", "auto"}
  /\ ParkDaily
  /\ ParkDedupe
  /\ ParkRest

NextRun ==
  \/ (StartScheduler /\ UNCHANGED <<now, recordVars, approvalVars, dailyVars, dedupe, restVars>>)
  \/ (IntervalFire /\ UNCHANGED <<now, recordVars, approvalVars, dailyVars, dedupe, restVars>>)
  \/ (WriteControlRun /\ UNCHANGED <<now, recordVars, approvalVars, dailyVars, dedupe, restVars>>)
  \/ (OnStateChange /\ UNCHANGED <<now, recordVars, approvalVars, dailyVars, dedupe, restVars>>)
  \/ (\E t \in Triggers : ResetControlRun(t) /\ UNCHANGED <<now, recordVars, approvalVars, dailyVars, dedupe, restVars>>)
  \/ (\E t \in Triggers : ExamineLock(t) /\ UNCHANGED <<now, recordVars, approvalVars, dailyVars, dedupe, restVars>>)
  \/ (\E t \in Triggers : RunBody(t) /\ UNCHANGED <<now, recordVars, approvalVars, dailyVars, dedupe, restVars>>)
  \/ (\E t \in Triggers : RunFinalize(t) /\ UNCHANGED <<now, recordVars, approvalVars, dailyVars, dedupe, restVars>>)

SpecRun == InitRunSpec /\ [][NextRun]_vars

runVarsButAdapter == <<running, controlRun, runEvents, trig, warnings, mode>>

InitDailySpec ==
  /\ now = 1
  /\ ParkRecord
  /\ ParkApproval
  /\ ParkRun
  /\ ParkDedupe
  /\ InitDaily
  /\ dailyCfg \in [enabled : BOOLEAN, hour : ScheduleHours,
                   telegram : {"on", "noInstance", "off"}]
  /\ ParkRest

NextDaily ==
  \/ (Tick /\ UNCHANGED <<now, recordVars, approvalVars, runVars, dedupe, restVars>>)
  \/ (StartDailyReportScheduler /\ UNCHANGED <<now, recordVars, approvalVars, runVars, dedupe, restVars>>)
  \/ (OnUnload /\ UNCHANGED <<now, recordVars, approvalVars, runVarsButAdapter, dedupe, restVars>>)
  \/ (DailyTimerFires /\ UNCHANGED <<now, recordVars, approvalVars, runVars, dedupe, restVars>>)
  \/ (DailyDeliver /\ UNCHANGED <<now, recordVars, approvalVars, runVars, dedupe, restVars>>)

SpecDaily == InitDailySpec /\ [][NextDaily]_vars

allButDedupe == <<now, recordVars, approvalVars, runVars, dailyVars, restVars>>

InitDedupeSpec ==
  /\ now = 1
  /\ ParkRecord
  /\ ParkApproval
  /\ ParkRun
  /\ ParkDaily
  /\ InitDedupe
  /\ ParkRest

NextDedupe ==
  \/ (MergeOnce /\ UNCHANGED allButDedupe)
  \/ (MergeAgain /\ UNCHANGED allButDedupe)

SpecDedupe == InitDedupeSpec /\ [][NextDedupe]_vars

baseVars == <<now, recordVars, approvalVars, runVars, dailyVars, dedupe>>

ParkBase ==
  /\ now = 1
  /\ ParkRecord
  /\ ParkApproval
  /\ ParkRun
  /\ ParkDaily
  /\ ParkDedupe

InitAggregateSpec ==
  /\ ParkBase
  /\ InitAggregate
  /\ ParkHistory
  /\ ParkInterleaved
  /\ ParkLater

NextAggregate == AggregateData /\ UNCHANGED <<baseVars, hist, interleavedVars, laterVars>>

SpecAggregate == InitAggregateSpec /\ [][NextAggregate]_vars

InitHistorySpec ==
  /\ ParkBase
  /\ ParkAggregate
  /\ InitHistory
  /\ ParkInterleaved
  /\ ParkLater

NextHistory == PersistActions /\ UNCHANGED <<baseVars, agg, interleavedVars, laterVars>>

SpecHistory == InitHistorySpec /\ [][NextHistory]_vars

otherThanApproval ==
  <<recordVars, runVars, dailyVars, dedupe, agg, hist, laterVars>>

InitInterleavedSpec ==
  /\ now = 1
  /\ ParkRecord
  /\ InitApproval
  /\ cfg \in [dryRun : BOOLEAN, telegram : {"on"}]
  /\ ParkRun
  /\ ParkDaily
  /\ ParkDedupe
  /\ ParkAggregate
  /\ ParkHistory
  /\ InitInterleaved
  /\ ParkLater

NextInterleaved ==
  \/ (PublishBatch /\ UNCHANGED <<otherThanApproval, interleavedVars>>)
  \/ (OnApproveCallback /\ UNCHANGED otherThanApproval)
  \/ (OnJaReply /\ UNCHANGED otherThanApproval)
  \/ (\E s \in HandlerSlots : ApproveExecute(s) /\ UNCHANGED otherThanApproval)
  \/ (\E s \in HandlerSlots : ApproveFinish(s) /\ UNCHANGED otherThanApproval)
  \/ (\E s \in HandlerSlots : JaFinish(s) /\ UNCHANGED otherThanApproval)

SpecInterleaved == InitInterleavedSpec /\ [][NextInterleaved]_vars

InitMergeSpec ==
  /\ ParkBase
  /\ ParkAggregate
  /\ ParkHistory
  /\ ParkInterleaved
  /\ InitMerge
  /\ ParkLifecycle
  /\ ParkRequest
  /\ ParkStores
  /\ ParkDeviations

NextMerge ==
  \/ (ClockAdvances /\ UNCHANGED <<baseVars, agg, hist, interleavedVars, life, reqs, memo, detect>>)
  \/ (DeriveLiveRuleActions /\ UNCHANGED <<baseVars, agg, hist, interleavedVars, life, reqs, memo, detect>>)
  \/ (DeriveDeviationActions /\ UNCHANGED <<baseVars, agg, hist, interleavedVars, life, reqs, memo, detect>>)
  \/ (DeriveGptSuggestedActions /\ UNCHANGED <<baseVars, agg, hist, interleavedVars, life, reqs, memo, detect>>)
  \/ (MergeRunActions /\ UNCHANGED <<baseVars, agg, hist, interleavedVars, life, reqs, memo, detect>>)

SpecMerge == InitMergeSpec /\ [][NextMerge]_vars

InitLifecycleSpec ==
  /\ ParkBase
  /\ ParkAggregate
  /\ ParkHistory
  /\ ParkInterleaved
  /\ ParkMerge
  /\ InitLifecycle
  /\ ParkRequest
  /\ ParkStores
  /\ ParkDeviations

allButLife == <<baseVars, agg, hist, interleavedVars, merge, reqs, memo, detect>>

NextLifecycle ==
  \/ (OnReadyBegins /\ UNCHANGED allButLife)
  \/ (StartSchedulers /\ UNCHANGED allButLife)
  \/ (IntervalTimerFires /\ UNCHANGED allButLife)
  \/ (AnalysisEnds /\ UNCHANGED allButLife)
  \/ (DailyTimerCallback /\ UNCHANGED allButLife)
  \/ (DailyExecutionEnds /\ UNCHANGED allButLife)
  \/ (OnUnloadInstance /\ UNCHANGED allButLife)

SpecLifecycle == InitLifecycleSpec /\ [][NextLifecycle]_vars

\* The event loop runs every timer that is due, and the awaits of
\* runDailyReportIfDue (reads and writes of states) settle.
SpecLifecycleLive ==
  /\ InitLifecycleSpec
  /\ [][NextLifecycle]_vars
  /\ WF_vars(DailyTimerCallback /\ UNCHANGED allButLife)
  /\ WF_vars(DailyExecutionEnds /\ UNCHANGED allButLife)

InitRequestSpec ==
  /\ ParkBase
  /\ ParkAggregate
  /\ ParkHistory
  /\ ParkInterleaved
  /\ ParkMerge
  /\ ParkLifecycle
  /\ InitRequest
  /\ ParkStores
  /\ ParkDeviations

allButReq == <<baseVars, agg, hist, interleavedVars, merge, life, memo, detect>>

NextRequest ==
  \/ (SendRequest /\ UNCHANGED allButReq)
  \/ (RemoteSettles /\ UNCHANGED allButReq)
  \/ (TimeoutFires /\ UNCHANGED allButReq)
  \/ (TimePasses /\ UNCHANGED allButReq)
  \/ (FinalizeRun /\ UNCHANGED allButReq)

SpecRequest == InitRequestSpec /\ [][NextRequest]_vars

\* Time passes, the event loop runs every timer that is due, and the run
\* goes on when the request it awaits has returned; the remote side need
\* never answer.
SpecRequestLive ==
  /\ InitRequestSpec
  /\ [][NextRequest]_vars
  /\ WF_vars(TimePasses /\ UNCHANGED allButReq)
  /\ WF_vars(TimeoutFires /\ UNCHANGED allButReq)
  /\ WF_vars(FinalizeRun /\ UNCHANGED allButReq)

InitStoresSpec ==
  /\ ParkBase
  /\ ParkAggregate
  /\ ParkHistory
  /\ ParkInterleaved
  /\ ParkMerge
  /\ ParkLifecycle
  /\ ParkRequest
  /\ InitStores
  /\ ParkDeviations

allButMemo == <<baseVars, agg, hist, interleavedVars, merge, life, reqs, detect>>

NextStores ==
  \/ (StoreBegins /\ UNCHANGED allButMemo)
  \/ (StoreGoesOn /\ UNCHANGED allButMemo)
  \/ (LoadBegins /\ UNCHANGED allButMemo)
  \/ (LoadGoesOn /\ UNCHANGED allButMemo)

SpecStores == InitStoresSpec /\ [][NextStores]_vars

InitDeviationsSpec ==
  /\ ParkBase
  /\ ParkAggregate
  /\ ParkHistory
  /\ ParkInterleaved
  /\ ParkMerge
  /\ ParkLifecycle
  /\ ParkRequest
  /\ ParkStores
  /\ InitDeviations

NextDeviations ==
  CheckDeviations
    /\ UNCHANGED <<baseVars, agg, hist, interleavedVars, merge, life, reqs, memo>>

SpecDeviations == InitDeviationsSpec /\ [][NextDeviations]_vars

(***************************************************************************)
(* Claims                                                                  *)
(***************************************************************************)

LifecycleEdges ==
  {<<"proposed", "approved">>, <<"proposed", "rejected">>,
   <<"approved", "executed">>, <<"approved", "failed">>}

TerminalStatuses == {"rejected", "executed", "failed"}

\* C1: every change of a record's status is an edge of the graph
\* proposed -> {approved, rejected}, approved -> {executed, failed}; a
\* terminal status never changes and proposed never becomes executed or
\* failed in one step.
C1_StatusFollowsGraph ==
  [][rec'.status # rec.status => <<rec.status, rec'.status>> \in LifecycleEdges]_vars

\* C1 witness: a request for another status was refused in a terminal status.
C1_Witness ==
  /\ rec.status \in TerminalStatuses
  /\ recLast.op = "transition"
  /\ recLast.from = rec.status
  /\ recLast.target # rec.status
  /\ recLast.ok = FALSE

\* Number of entries of a store that name the action id in the given field.
EntriesFor(store, field, id) ==
  Cardinality({i \in DOMAIN store : store[i][field] = id})

\* C2: a transition request that is not allowed returns failure and leaves
\* the record unchanged, and the command that issued it (per-action callback
\* or whole-batch reply) writes nothing for that action: the record is
\* persisted as it was before the command, and no feedback entry, learning
\* entry or confirmation is added for it.
C2_RefusedTransitionWritesNothing ==
  [][lastCmd'.seq # lastCmd.seq =>
       \A r \in lastCmd'.refused :
         /\ r \in Range(stored')
         /\ EntriesFor(feedbackHistory', "actionId", r.id)
              = EntriesFor(feedbackHistory, "actionId", r.id)
         /\ EntriesFor(learningHistory', "ofAction", r.id)
              = EntriesFor(learningHistory, "ofAction", r.id)
         /\ EntriesFor(learningHistoryEntries', "actionId", r.id)
              = EntriesFor(learningHistoryEntries, "actionId", r.id)
         /\ EntriesFor(outbox', "actionId", r.id)
              = EntriesFor(outbox, "actionId", r.id)]_vars

TimestampFields == {"createdAt", "decidedAt", "executedAt"}

\* C3: createdAt, decidedAt and executedAt of an action change at most once,
\* from unset to a value: a timestamp the persisted record of an action
\* carries is never replaced by another value, whatever commands follow.
C3_TimestampsWrittenOnce ==
  [][\A i \in DOMAIN stored : \A j \in DOMAIN stored' :
       stored[i].id = stored'[j].id =>
         \A f \in TimestampFields :
           stored[i].timestamps[f] # NoTime =>
             stored'[j].timestamps[f] = stored[i].timestamps[f]]_vars

\* C4: under every interleaving of control.run triggers, interval triggers
\* and the startup trigger, at most one execution of the analysis pipeline
\* is in progress.
C4_AtMostOneExecution == Cardinality(Executing) <= 1

C4_Witness ==
  \E t, u, v \in Triggers :
    /\ trig[t].kind = "startup" /\ trig[t].pc \in ExecutingPcs
    /\ trig[u].kind = "interval" /\ trig[u].result = "skipped"
    /\ trig[v].kind = "control" /\ trig[v].result = "skipped"

Ran == {t \in Triggers : trig[t].result = "ran"}

Skipped == {t \in Triggers : trig[t].result = "skipped"}

\* C5 as stated: a trigger that arrives while an analysis is in progress
\* starts no analysis, neither at that moment nor after the running one
\* finishes.
C5_ArrivedBusyNeverRuns ==
  \A t \in Triggers : trig[t].arrivedBusy => trig[t].result # "ran"

\* C5 amended: a trigger whose handler finds the lock held when it examines
\* it (for control.run that is after the reset write) starts no analysis,
\* neither then nor later, and one warning is logged for each such trigger;
\* the triggers that ran are exactly those that found the lock free.
C5_BusyTriggerSkipped ==
  /\ \A t \in Triggers :
        trig[t].sawBusy => trig[t].pc = "done" /\ trig[t].result = "skipped"
                           /\ trig[t].ending = "none"
  /\ \A t \in Triggers : trig[t].result = "ran" => ~trig[t].sawBusy
  /\ warnings = Cardinality(Skipped)

C5_Witness ==
  /\ Cardinality(Ran) = 1
  /\ Cardinality(Skipped) = 2
  /\ warnings = 2
  /\ running = FALSE
  /\ runEvents = <<>>

\* C6: the run lock is held exactly while an analysis executes: it is free
\* after a run that ended normally, after one whose body threw and after one
\* whose final writes threw.
C6_LockFreeWhenIdle == running <=> (Executing # {})

C6_Witness ==
  \E t, u, v \in Triggers :
    /\ trig[t].pc = "done" /\ trig[t].ending = "finalThrew"
    /\ trig[u].pc = "done" /\ trig[u].ending = "bodyThrew"
    /\ trig[v].pc = "done" /\ trig[v].ending = "ok"
    /\ running = FALSE

\* C7: a handler of a non-acknowledged write of true has written false with
\* ack to control.run before it examines the lock and before an analysis
\* starts, also when it then skips; a non-acknowledged true in control.run is
\* still undelivered or about to be reset; delivering an acknowledged write
\* starts no handler and leaves the lock alone.
C7_ResetBeforeLock ==
  /\ [](\A t \in Triggers :
          trig[t].kind = "control" /\ trig[t].pc # "reset" => trig[t].resetDone)
  /\ [](controlRun.val /\ ~controlRun.ack =>
          \/ \E i \in DOMAIN runEvents : runEvents[i].val /\ ~runEvents[i].ack
          \/ \E t \in Triggers : trig[t].pc = "reset")
  /\ [][(runEvents # <<>> /\ runEvents' = Tail(runEvents) /\ Head(runEvents).ack)
          => (trig' = trig /\ running' = running)]_vars

C7_Witness ==
  \E t, u \in Triggers :
    /\ trig[t].kind = "control" /\ trig[t].result = "skipped" /\ trig[t].resetDone
    /\ trig[u].kind = "control" /\ trig[u].result = "ran" /\ trig[u].resetDone
    /\ controlRun = [val |-> TRUE, ack |-> TRUE]
    /\ runEvents = <<>>

Today == LocalDay(utcHour)

\* A scheduler execution starts in this step.
ExecutionStarts ==
  /\ dailyExec.pc = "idle"
  /\ dailyTimer = utcHour
  /\ (dailyLog' # dailyLog \/ dailyExec' # dailyExec)

\* A scheduler execution that got past the stamp ends in this step, with
\* the channel set up and without an exception.
ExecutionDelivers ==
  /\ dailyExec.pc = "build"
  /\ dailyExec'.pc = "idle"
  /\ dailyCfg.telegram = "on"
  /\ dailyLog'[Today].failed = dailyLog[Today].failed

\* C8: on every local date of the configured timezone at most one daily
\* report is sent, however many scheduler executions happen on it; an
\* execution that finds the stamp equal to today's date sends nothing and
\* leaves the stamp; an execution that finds another stamp (with the channel
\* set up and nothing thrown) sends one report, the only one of that date,
\* and sets the stamp to today's date.
C8_AtMostOncePerDate ==
  /\ [](\A d \in Days : dailyLog[d].sent <= 1)
  /\ [][(ExecutionStarts /\ dailyLastSent = FormatDateStamp(utcHour))
          => /\ dailyExec'.pc = "idle"
             /\ dailyLog'[Today].runs = dailyLog[Today].runs + 1
             /\ dailyLog'[Today].sent = dailyLog[Today].sent
             /\ dailyLastSent' = dailyLastSent]_vars
  /\ [][(ExecutionStarts /\ dailyLastSent # FormatDateStamp(utcHour)
          /\ dailyCfg.telegram # "off")
          => dailyExec' = [pc |-> "build", today |-> FormatDateStamp(utcHour)]]_vars
  /\ [][ExecutionDelivers
          => /\ dailyLog[Today].sent = 0
             /\ dailyLog'[Today].sent = 1
             /\ dailyLastSent' = FormatDateStamp(utcHour)
             /\ dailyLastSent' # dailyLastSent]_vars

C8_Witness ==
  \E d \in Days :
    /\ d > 0
    /\ dailyLog[d - 1].sent = 1
    /\ dailyLog[d].sent = 1
    /\ dailyLog[d].runs >= 2
    /\ dailyLastSent = FormatDateStamp(utcHour)
    /\ Today = d

\* C9 as stated: whenever daily reports are enabled (adapter up, channel
\* set up, no execution in flight, none failed today), the stamp differs
\* from today's local date and the scheduled local hour has passed, the
\* report has been sent and the stamp is today's date; also on a day on
\* which the adapter was started after the scheduled time.
C9_OverdueReportIsSent ==
  (/\ dailyAdapter.up
   /\ dailyCfg.enabled
   /\ dailyCfg.telegram = "on"
   /\ dailyExec.pc = "idle"
   /\ dailyLog[Today].failed = 0
   /\ LocalHour(utcHour) > dailyCfg.hour)
  => (dailyLastSent = FormatDateStamp(utcHour) /\ dailyLog[Today].sent = 1)

\* C10: the merge is idempotent: for every input list, merging the output
\* of the merge again yields the same actions in the same order.
C10_DedupeIdempotent ==
  dedupe.phase = "twice" => dedupe.twice = dedupe.once

C10_Witness ==
  /\ dedupe.phase = "twice"
  /\ Len(dedupe.input) = 3
  /\ Len(dedupe.once) = 2
  /\ dedupe.once[1].title = "new"
  /\ dedupe.once[1].id = ""
  /\ dedupe.twice = dedupe.once

\* The key of an action as the merge is described: its id when it has one,
\* otherwise the tuple of category, type, learningKey and deviationRef (a
\* missing category read as 'unknown', a missing type as 'action').
DescribedKey(action) ==
  IF action.id # ""
  THEN <<"id", action.id>>
  ELSE <<"tuple", OrString(action.category, "unknown"),
         OrString(action.type, "action"), action.learningKey, action.deviationRef>>

\* The positions of the input that hold an action
PresentAt(input) == {i \in DOMAIN input : input[i].present}

FirstWithKey(input, key) ==
  CHOOSE i \in PresentAt(input) :
    /\ DescribedKey(input[i]) = key
    /\ \A j \in PresentAt(input) : DescribedKey(input[j]) = key => i <= j

LastWithKey(input, key) ==
  CHOOSE i \in PresentAt(input) :
    /\ DescribedKey(input[i]) = key
    /\ \A j \in PresentAt(input) : DescribedKey(input[j]) = key => j <= i

StoredWithId(list, id) == {list[j] : j \in {k \in DOMAIN list : list[k].id = id}}

ProposedIn(list) == {list[i] : i \in {k \in DOMAIN list : list[k].status = "proposed"}}

ApprovedAndRun(before) ==
  /\ StoredWithId(stored', before.id) # {}
  /\ \A a \in StoredWithId(stored', before.id) :
       /\ a.status \in {"executed", "failed"}
       /\ a.decision = "approved"
       /\ a.timestamps.decidedAt # NoTime
       /\ a.timestamps.executedAt # NoTime

Rejected(before) ==
  /\ StoredWithId(stored', before.id) # {}
  /\ \A a \in StoredWithId(stored', before.id) :
       /\ a.status = "rejected"
       /\ a.timestamps.executedAt = NoTime

\* C13: when a whole-batch reply is processed while a batch is pending, JA in
\* any letter case leaves every action that was proposed in the batch
\* approved and dispatched (status executed or failed, decision approved,
\* decidedAt and executedAt set) in the persisted list, NEIN in any letter
\* case leaves every such action rejected there, and in both cases the
\* pending batch is empty afterwards.
C13_BatchReplyDecidesBatch ==
  [][\A text \in {"JA", "ja", "NEIN", "nein"}, outcomes \in BatchOutcomes,
        kind \in {"feedback", "text"} :
       (pending.some /\ ProcessFeedback(text, outcomes, kind)) =>
         /\ pending' = NoPending
         /\ \A before \in ProposedIn(pending.list) :
              IF text \in {"JA", "ja"} THEN ApprovedAndRun(before)
              ELSE Rejected(before)]_vars

\* A two-action batch answered as a whole: both actions were proposed, one
\* handler succeeded and one threw.
C13_Witness ==
  /\ lastCmd.kind \in {"feedback", "text"}
  /\ lastCmd.refused = {}
  /\ ~pending.some
  /\ Len(stored) = 2
  /\ \E i, j \in DOMAIN stored :
       stored[i].status = "executed" /\ stored[j].status = "failed"


\* C12 as stated: when an analysis run has ended, every action of its final
\* list that does not require approval (the live rule protect_battery) is in
\* the persisted list with status executed, without any operator command.
C12_NoApprovalActionExecutedInRun ==
  lastCmd.kind = "publish" =>
    \A i \in DOMAIN stored :
      ~stored[i].requiresApproval => stored[i].status = "executed"

\* C14: when a run has ended, with the body completed or thrown at any step,
\* that run has written report.last, report.actions and info.lastError;
\* info.lastError holds the failure message after a failed run and is empty
\* after a successful one.
C14_RunAlwaysWritesReport ==
  lastCmd.kind \in {"publish", "failedRun"} =>
    /\ report.lastRun = lastCmd.seq
    /\ report.actionsRun = lastCmd.seq
    /\ report.lastErrorRun = lastCmd.seq
    /\ report.lastError = IF lastCmd.kind = "failedRun" THEN FailureMessage ELSE ""
    /\ lastCmd.kind = "failedRun" => stored = <<>>

\* A run that threw after the skip notice was set, following a run that had
\* published a batch.
C14_Witness ==
  /\ lastCmd.kind = "failedRun"
  /\ report.last = "analysis skipped"
  /\ report.lastError = FailureMessage
  /\ pending.some

\* C15 as stated: every completed run hands one notification to the
\* messaging channel, also a run whose final list is empty (messaging
\* enabled).
C15_EveryRunNotifies ==
  [][(lastCmd'.kind = "publish" /\ lastCmd'.seq # lastCmd.seq /\ cfg.telegram = "on")
       => Len(outbox') = Len(outbox) + 1]_vars

\* C16 as stated: between handlers, every action of the pending batch has an
\* entry with the same id in the persisted list report.actions.
C16_PendingActionsAreStored ==
  \A i \in DOMAIN pending.list :
    \E j \in DOMAIN stored : stored[j].id = pending.list[i].id


FiniteSamples(series) == SelectSeq(series, LAMBDA e : e.value.kind = "number")

\* C17 as stated: for every sample list no field of the aggregate is NaN or
\* Infinity; avg, min, max and last are null when the list holds no finite
\* sample, dayAvg (nightAvg) is null when no finite sample falls in the day
\* (night) hours, and a field that is null is not 0.
C17_AggregateFiniteOrNull ==
  agg.phase = "done" =>
    LET out    == agg.out
        finite == FiniteSamples(agg.series)
    IN  /\ \A f \in DOMAIN out : out[f].kind \in {"number", "null"}
        /\ Len(finite) = 0 => \A f \in DOMAIN out : out[f] = JsNull
        /\ Len(SelectSeq(finite, IsDayEntry)) = 0 => out.dayAvg = JsNull
        /\ Len(SelectSeq(finite, IsNightEntry)) = 0 => out.nightAvg = JsNull


HistoryIds(history) == {history[i].id : i \in DOMAIN history}

\* C18 as stated: after any sequence of persist operations the history holds
\* at most 500 entries and one entry per id, the entry of an action the last
\* persist wrote is retained and carries the state and time of that write,
\* and every entry the last persist dropped was updated no later than every
\* entry that it kept.
C18_HistoryKeepsLatest ==
  LET history == hist.history
  IN  /\ Len(history) <= ActionHistoryCap
      /\ \A i, j \in DOMAIN history : history[i].id = history[j].id => i = j
      /\ \A id \in hist.written :
           \E i \in DOMAIN history :
             /\ history[i].id = id
             /\ history[i].updatedAt = hist.persists + 1
             /\ history[i].action.timestamps.createdAt = hist.persists + 1
      /\ \A i \in DOMAIN hist.before :
           hist.before[i].id \notin HistoryIds(history) =>
             \A j \in DOMAIN history :
               hist.before[i].updatedAt <= history[j].updatedAt


\* The four fields of an action that a command may change.
Decided(action) ==
  <<action.status, action.decision, action.timestamps, action.executionResult>>

\* Every action of the list other than the one with this id is at the same
\* place with the same status, decision, timestamps and execution result.
OthersKept(before, after, id) ==
  /\ Len(after) = Len(before)
  /\ \A i \in DOMAIN before :
       before[i].id # id =>
         after[i].id = before[i].id /\ Decided(after[i]) = Decided(before[i])

\* The status a command leaves an action of the persisted list in.
StatusAfter(action, command) ==
  CASE command = "modify" -> {action.status}
    [] command = "reject" ->
         IF IsActionTransitionAllowed(action.status, "rejected")
         THEN {"rejected"} ELSE {action.status}
    [] command = "approve" ->
         IF IsActionTransitionAllowed(action.status, "approved")
         THEN {"executed", "failed"} ELSE {action.status}
    [] command = "executed" ->
         IF IsActionTransitionAllowed(action.status, "executed")
         THEN {"executed"} ELSE {action.status}

\* C19: a per-action command for an id leaves the action with that id in the
\* status its transition leads to, and every other action of the persisted
\* list and of the pending batch keeps its status, decision, timestamps and
\* execution result.
C19_CommandTouchesOneAction ==
  [][\A actionId \in CallbackIds, command \in Commands, outcome \in HandlerOutcomes :
       HandleActionCallback(actionId, command, outcome) =>
         /\ OthersKept(stored, stored', actionId)
         /\ OthersKept(pending.list, pending'.list, actionId)
         /\ pending'.some = pending.some
         /\ \A i \in DOMAIN stored :
              stored[i].id = actionId =>
                /\ stored'[i].id = actionId
                /\ stored'[i].status \in StatusAfter(stored[i], command)]_vars

\* Of a batch of two, the first action has been rejected by its own command
\* and the second is still proposed, in the persisted list and in the batch.
C19_Witness ==
  /\ lastCmd.kind = "callback"
  /\ lastCmd.id = "a1"
  /\ Len(stored) = 2
  /\ stored[1].id = "a1" /\ stored[1].status = "rejected"
  /\ stored[2].status = "proposed"
  /\ pending.some /\ Len(pending.list) = 2
  /\ pending.list[1].status = "rejected"
  /\ pending.list[2].status = "proposed"


\* C20 as stated: under every interleaving of approval commands the handler
\* of an action is called at most once.
C20_HandlerCalledAtMostOnce ==
  \A id \in DOMAIN invocations : invocations[id] <= 1


\* Every terminal action of the list that is still in the list afterwards
\* has the status it had.
TerminalKept(before, after) ==
  \A i \in DOMAIN before, j \in DOMAIN after :
    (before[i].status \in TerminalStatuses /\ after[j].id = before[i].id)
      => after[j].status = before[i].status

\* C21 as stated: under every interleaving of per-action callbacks and
\* whole-batch replies, an action seen as rejected, executed or failed in the
\* persisted list or in the pending batch is never seen there later with a
\* different status.
C21_TerminalStatusIsFinal ==
  [][TerminalKept(stored, stored') /\ TerminalKept(pending.list, pending'.list)]_vars


\* C22 as stated: every status transition of an action is persisted before
\* the next one: from one rewrite of the persisted list to the next the
\* status of an action moves along at most one edge of the lifecycle, so
\* that each of approved, rejected, executed and failed is carried by a
\* rewrite, and the history then holds an entry with the id and that status.
C22_EachTransitionPersisted ==
  [][\A i \in DOMAIN stored, j \in DOMAIN stored' :
       (stored'[j].id = stored[i].id /\ stored'[j].status # stored[i].status) =>
         /\ <<stored[i].status, stored'[j].status>> \in LifecycleEdges
         /\ \E h \in DOMAIN actionHistory' :
              /\ actionHistory'[h].id = stored'[j].id
              /\ actionHistory'[h].action.status = stored'[j].status]_vars


\* C23 as stated: a transition request whose target is the record's current
\* status changes nothing for any status: status, decision, timestamps and
\* execution result are as before, also when the decision had been set to
\* modified after the record was approved or rejected.
C23_SelfTransitionIsNoOp ==
  [][(now' = now + 1 /\ recLast'.op = "transition" /\ recLast'.target = rec.status)
       => Decided(rec') = Decided(rec)]_vars


\* C24: the dispatch of an approved record ends in status executed whenever
\* the handler does not throw; without a handler for the category and in
\* dry-run mode no handler runs and the execution result is skipped; the
\* record ends in status failed exactly when the handler throws.
C24_DispatchOutcome ==
  [][(now' = now + 1 /\ recLast'.op = "execute") =>
       LET dispatch == recLast'.target
       IN  /\ rec.status = "approved"
           /\ rec'.status = "failed" <=> dispatch = "throw"
           /\ dispatch # "throw" => rec'.status = "executed"
           /\ dispatch \in {"dryRun", "noHandler"} <=>
                rec'.executionResult.status = "skipped"
           /\ dispatch = "throw" <=> rec'.executionResult.status = "error"
           /\ rec'.timestamps.executedAt # NoTime]_vars

\* An approved record dispatched without a handler for its category.
C24_Witness ==
  /\ recLast.op = "execute"
  /\ recLast.target = "noHandler"
  /\ rec.status = "executed"
  /\ rec.executionResult = [status |-> "skipped", reason |-> "noHandler"]


\* C25: when a batch is dispatched, an action ends failed with the error in
\* its execution result exactly when its own handler threw; every other
\* approved action of the batch is dispatched as well and ends executed, and
\* the whole batch is persisted afterwards.
C25_HandlerFailureIsLocal ==
  [][\A outcomes \in BatchOutcomes, kind \in {"feedback", "text", "callback"} :
       (pending.some /\ FinalizeApproved(outcomes, kind)) =>
         /\ Len(stored') = Len(pending.list)
         /\ \A i \in DOMAIN pending.list :
              /\ stored'[i].id = pending.list[i].id
              /\ pending.list[i].status = "proposed" =>
                   LET threw == ~cfg.dryRun /\ outcomes[i] = "throw"
                                /\ pending.list[i].category \in HandlerCategories
                   IN  /\ stored'[i].status = IF threw THEN "failed" ELSE "executed"
                       /\ stored'[i].executionResult.status = "error" <=> threw
                       /\ stored'[i].timestamps.executedAt # NoTime]_vars

\* A batch of two answered as a whole: the first handler threw, the second
\* action was dispatched all the same.
C25_Witness ==
  /\ lastCmd.kind \in {"feedback", "text", "callback"}
  /\ lastCmd.id = Null
  /\ lastCmd.refused = {}
  /\ ~pending.some
  /\ Len(stored) = 2
  /\ stored[1].status = "failed" /\ stored[1].executionResult.status = "error"
  /\ stored[2].status = "executed" /\ stored[2].executionResult.status = "success"


\* C26: a batch published by a run stays pending until a reply for that batch
\* is processed: when a whole-batch reply that began against an earlier batch
\* completes, a newer batch published meanwhile is neither cleared nor decided.
C26_NewerBatchStaysPending ==
  [][\A s \in HandlerSlots :
       (/\ handlers[s].kind = "ja" /\ handlers[s].pc = "persisting"
        /\ handlers'[s].pc = "done"
        /\ pending.some
        /\ \A i \in DOMAIN pending.list, j \in DOMAIN handlers[s].local :
             pending.list[i].id # handlers[s].local[j].id)
         => pending' = pending]_vars


\* C27: within one run the ids given to live-rule, deviation and
\* model-suggested actions are pairwise distinct, also when the generators
\* read the same clock value, so the merge drops no action whose category
\* or type differs from the others'.
C27_RunIdsDistinct ==
  merge.phase = "merged" =>
    LET all == merge.live \o merge.deviation \o merge.gpt
    IN  /\ \A i, j \in DOMAIN all : i # j => all[i].id # all[j].id
        /\ \A i \in DOMAIN all :
             \E j \in DOMAIN merge.final :
               /\ merge.final[j].category = all[i].category
               /\ merge.final[j].type = all[i].type


\* C28: the modify command never changes the action's status, whatever it
\* is; it sets the decision to 'modified', raises the flag that awaits the
\* free text together with that action's id, and leaves executedAt and
\* every other action unchanged.
C28_ModifyKeepsStatus ==
  [][\A actionId \in CallbackIds, outcome \in HandlerOutcomes :
       (FindIndex(stored, actionId) # 0
        /\ HandleActionCallback(actionId, "modify", outcome)) =>
         LET i == FindIndex(stored, actionId)
         IN  /\ stored'[i].id = actionId
             /\ stored'[i].status = stored[i].status
             /\ stored'[i].decision = "modified"
             /\ stored'[i].timestamps.executedAt = stored[i].timestamps.executedAt
             /\ stored'[i].executionResult = stored[i].executionResult
             /\ awaitingTelegramInput'
             /\ pendingModifyActionId' = actionId
             /\ OthersKept(stored, stored', actionId)]_vars

\* An action that was executed and is then modified, next to another one
C28_Witness ==
  /\ lastCmd.kind = "callback"
  /\ awaitingTelegramInput
  /\ pendingModifyActionId = "a1"
  /\ Len(stored) = 2
  /\ stored[1].id = "a1" /\ stored[1].status = "executed"
  /\ stored[1].decision = "modified"
  /\ stored[1].timestamps.executedAt # NoTime
  /\ stored[2].status = "proposed"


\* C29: while the flag that awaits the free text is set, the next text
\* message, whatever it says, is consumed as the modification text: the flag
\* and the pending id are cleared, no status changes, and a 'modified'
\* learning entry is recorded for the flagged action (for the whole pending
\* batch when no id is pending).
C29_TextAfterModifyIsConsumed ==
  [][\A text \in Texts, outcomes \in BatchOutcomes :
       (awaitingTelegramInput /\ now' = now + 1
        /\ HandleTelegramText(text, outcomes)) =>
         /\ ~awaitingTelegramInput'
         /\ pendingModifyActionId' = Null
         /\ stored' = stored
         /\ pending' = pending
         /\ pendingModifyActionId # Null =>
              /\ Len(learningHistory') = Len(learningHistory) + 1
              /\ learningHistory'[Len(learningHistory')].ofAction =
                   pendingModifyActionId
              /\ learningHistory'[Len(learningHistory')].decision = "modified"]_vars


\* What an ignored input leaves alone: the persisted actions, the pending
\* batch, the two flags and the feedback and learning stores
NoSideEffect ==
  UNCHANGED <<stored, pending, awaitingTelegramInput, pendingModifyActionId,
              feedbackHistory, learningHistory, learningHistoryEntries>>

\* A command for an id that is not in the persisted list, or a text other
\* than JA/NEIN while the free-text flag is clear
UnknownCommandOrText ==
  \/ \E actionId \in CallbackIds, command \in Commands, outcome \in HandlerOutcomes :
       /\ FindIndex(stored, actionId) = 0
       /\ HandleActionCallback(actionId, command, outcome)
  \/ \E text \in Texts, outcomes \in BatchOutcomes :
       /\ ToUpperCase(text) \notin {"JA", "NEIN"}
       /\ \/ ~awaitingTelegramInput /\ HandleTelegramText(text, outcomes)
          \/ ProcessFeedback(text, outcomes, "feedback")

\* C30 as stated: a callback token that is not action:<id>:<known command>,
\* a command for an id that is not in the persisted list, and a text other
\* than JA/NEIN while the free-text flag is clear leave the persisted
\* actions, the pending batch, the flags and the stores unchanged.
C30_UnknownInputHasNoEffect ==
  [][(now' = now + 1 /\
      (\/ \E data \in BatchTokens, outcomes \in BatchOutcomes :
            HandleTelegramCallback(data, outcomes)
       \/ UnknownCommandOrText)) => NoSideEffect]_vars

\* C30 amended: the same for a callback token that is neither
\* action:<id>:<known command> nor approve_all nor reject_all.
C30_UnknownInputHasNoEffectButBatchTokens ==
  [][(now' = now + 1 /\
      (\/ \E data \in BatchTokens \ {"approve_all", "reject_all"},
             outcomes \in BatchOutcomes :
            HandleTelegramCallback(data, outcomes)
       \/ UnknownCommandOrText)) => NoSideEffect]_vars

\* A command for an unknown id arrived while a batch was pending
C30_Witness ==
  /\ lastCmd.kind = "callback"
  /\ lastCmd.id = "zz"
  /\ pending.some
  /\ Len(stored) = 2
  /\ stored[1].status = "proposed"
  /\ stored[2].status = "proposed"


\* The entries a step appended to a store
NewEntries(before, after) == SubSeq(after, Len(before) + 1, Len(after))

\* The step gave the action a status that neither the persisted list nor the
\* pending batch held for it before
StatusChanged(id) ==
  \E j \in DOMAIN stored' :
    /\ stored'[j].id = id
    /\ \A i \in DOMAIN stored :
         stored[i].id = id => stored[i].status # stored'[j].status
    /\ \A i \in DOMAIN pending.list :
         pending.list[i].id = id => pending.list[i].status # stored'[j].status

\* C31: feedback and learning entries are stored, and confirmations sent,
\* only for actions whose status the command changed: a repeated reject,
\* approve or executed command and a whole-batch reply for an action that is
\* already decided store and send nothing further.  (The learning entry of a
\* modify command and of its free text is the 'modified' one.)
C31_EntriesOnlyForChangedStatus ==
  [][/\ \A e \in Range(NewEntries(feedbackHistory, feedbackHistory')) :
          StatusChanged(e.actionId)
     /\ \A e \in Range(NewEntries(learningHistory, learningHistory')) :
          e.decision # "modified" => StatusChanged(e.ofAction)
     /\ \A m \in Range(NewEntries(outbox, outbox')) :
          (m.kind = "confirmation" /\ m.label # "modified")
            => StatusChanged(m.actionId)]_vars


\* The instance has started its schedulers, daily reports are enabled and
\* it has not been unloaded
DailyChainAlive == life.ready = "started" /\ life.enabled /\ ~life.unloaded

\* C32: while daily reports are enabled, after every scheduler execution,
\* however it ended, exactly one new timer is armed; at any time at most one
\* daily timer is outstanding (and none while the execution is in flight),
\* and the chain of executions never stops.
C32_DailyChainKeepsOneTimer ==
  /\ [](DailyChainAlive => life.timers + life.execs = 1)
  /\ [][(DailyChainAlive /\ life'.execs < life.execs /\ ~life'.unloaded)
          => (life.timers = 0 /\ life'.timers = 1 /\ life'.handle = "armed")]_vars
  /\ []<>(~DailyChainAlive \/ life.execs > 0)
  /\ []<>(~DailyChainAlive \/ life.timers > 0)

\* An execution failed and the next timer is armed all the same
C32_Witness ==
  /\ DailyChainAlive
  /\ life.last = "failed"
  /\ life.execs = 0
  /\ life.timers = 1


\* The configured local time of the local date of instant t is still to come
TodaysTimeAhead(config, t) ==
  \E x \in (t + 1)..(t + DayHours + 1) :
    LocalDay(x) = LocalDay(t) /\ LocalHour(x) = config.hour

\* C33: the computed next fire instant is strictly later than the current
\* instant and falls on the configured local time of today's local date when
\* that time has not passed and of the next local date otherwise, also on
\* days of 23 and of 25 hours.
C33_NextRunIsNextLocalTime ==
  dailyCfg.enabled =>
    LET nextRun == GetNextDailyReportSchedule(dailyCfg, utcHour)
    IN  /\ nextRun > utcHour
        /\ LocalHour(nextRun) = dailyCfg.hour
        /\ LocalDay(nextRun) = IF TodaysTimeAhead(dailyCfg, utcHour)
                               THEN LocalDay(utcHour)
                               ELSE LocalDay(utcHour) + 1


\* C34: report.dailyLastSent is set to a date only when a daily report was
\* handed to the messaging channel on that date; when the channel instance
\* is missing or the send fails the stamp keeps its value.
C34_StampOnlyWhenSent ==
  [][dailyLastSent' # dailyLastSent =>
       /\ dailyLastSent' = FormatDateStamp(utcHour)
       /\ dailyLog'[Today].sent = dailyLog[Today].sent + 1]_vars


\* C35: after unload no timer is armed and no analysis or daily-report
\* execution starts any more, also when the unload happens while a
\* daily-report execution or an analysis run is in flight.
C35_NothingAfterUnload ==
  life.unloaded =>
    /\ life.timers = 0
    /\ ~life.intervalTimer
    /\ ~life.lateArmed
    /\ ~life.lateStart


\* C36: whatever becomes of a history or completion request (reply, error,
\* no reply, reply after the timeout), the run waits for it no longer than
\* the timeout (10 s for history, 15 s for completion), goes on with the
\* reply or with an empty or default result and reaches finalization; a
\* reply that arrives after the timeout changes nothing in the run's data.
C36_RequestsAreBounded ==
  /\ [](\A r \in 1..MaxRequests :
          LET call == reqs.calls[r]
          IN  /\ call.pc = "waiting" =>
                   reqs.clock <= call.start + TimeoutOf(call.kind)
              /\ call.pc = "returned" =>
                   /\ call.result \in {"data", "empty", "default"}
                   /\ call.result = "data" <=> call.race = "data")
  /\ [][\A r \in 1..MaxRequests :
          reqs.calls[r].pc = "returned" =>
            /\ reqs.calls'[r].result = reqs.calls[r].result
            /\ reqs.calls'[r].pc = "returned"]_vars
  /\ (reqs.cur > 0) ~> reqs.finalized

\* The first request timed out and its reply arrived late, while the
\* second request was waiting
C36_Witness ==
  /\ reqs.calls[1].race = "timeout"
  /\ reqs.calls[1].remote = "replied"
  /\ reqs.calls[1].result \in {"empty", "default"}
  /\ reqs.calls[2].pc = "waiting"


\* C37: whatever the completion service returns (nothing, entries without a
\* type, entries with or without an id), the final action list of the run
\* contains every live-rule and every deviation action the generators
\* produced.
C37_RuleActionsSurviveMerge ==
  merge.phase = "merged" =>
    \A a \in Range(merge.live) \cup Range(merge.deviation) :
      \E j \in DOMAIN merge.final : merge.final[j] = a


\* C38: no stored feedback or learning entry is lost while it is within its
\* window (the last 50, 200 or 500 appended): every entry appended by an
\* approval command is in the store in memory and in the persisted store,
\* whatever reload of the stores by an analysis run comes in between.
C38_NoEntryLost ==
  \A n \in StoreNames :
    \A e \in memo.appended[n] :
      (\A later \in memo.appended[n] : later - e < StoreCapOf(n)) =>
        /\ e \in Range(memo.memory[n])
        /\ e \in Range(memo.persisted[n])


\* C39: the detector reports a deviation exactly when its threshold
\* condition holds on finite inputs: the consumption peak when the live
\* consumption exceeds 1.5 times the night average, night water usage when it
\* is night and the live usage exceeds the night average, for every finite
\* baseline including 0, the battery anomaly when the live charge is more
\* than 10 below its average; a null baseline skips only its own check.
Reported(deviation) ==
  \E i \in DOMAIN detect.deviations : detect.deviations[i] = deviation

\* C39: each deviation is in the reported list exactly when its threshold
\* condition holds.
C39_DeviationIffThreshold ==
  detect.phase = "done" =>
    LET in == detect.in
    IN  /\ Reported(PeakDeviation) <=>
             /\ IsFinite(in.liveHouseConsumption)
             /\ IsFinite(in.houseConsumptionNightAvg)
             /\ 2 * in.liveHouseConsumption.num * in.houseConsumptionNightAvg.den
                  > 3 * in.houseConsumptionNightAvg.num * in.liveHouseConsumption.den
        /\ Reported(NightWaterDeviation) <=>
             /\ in.nowHour \notin DayStartHour..(NightStartHour - 1)
             /\ IsFinite(in.liveWaterUsage)
             /\ IsFinite(in.waterNightAvg)
             /\ in.liveWaterUsage.num * in.waterNightAvg.den
                  > in.waterNightAvg.num * in.liveWaterUsage.den
        /\ Reported(BatteryDeviation) <=>
             /\ IsFinite(in.liveBatterySoc)
             /\ IsFinite(in.batterySocAvg)
             /\ in.liveBatterySoc.num * in.batterySocAvg.den
                  < (in.batterySocAvg.num - 10 * in.batterySocAvg.den)
                      * in.liveBatterySoc.den


\* C40: in every reachable state of an action record, status proposed or
\* rejected implies executedAt is unset; status approved, rejected, executed
\* or failed implies decidedAt is set; status executed or failed implies
\* executedAt is set.
TimestampsMatchStatus(action) ==
  /\ action.status \in {"proposed", "rejected"} =>
       action.timestamps.executedAt = NoTime
  /\ action.status \in {"approved", "rejected", "executed", "failed"} =>
       action.timestamps.decidedAt # NoTime
  /\ action.status \in {"executed", "failed"} =>
       action.timestamps.executedAt # NoTime

\* C40 on the record under test: its timestamps match its status after every
\* sequence of transitions, decisions, normalisations and executions.
C40_RecordTimestampsMatchStatus == TimestampsMatchStatus(rec)

\* The same on every record of report.actions and of the pending batch.
StoredTimestampsMatchStatus ==
  /\ \A i \in DOMAIN stored : TimestampsMatchStatus(stored[i])
  /\ \A i \in DOMAIN pending.list : TimestampsMatchStatus(pending.list[i])

C40_Witness ==
  /\ rec.status \in {"executed", "failed"}
  /\ rec.timestamps.decidedAt # NoTime
  /\ rec.timestamps.executedAt # NoTime

====
